---- MODULE Spec2Model ----
(***************************************************************************)
(* A model of the resilient request/response engine of docutray-python:    *)
(* the retry-with-backoff HTTP transport (src/docutray/_http.py) and the   *)
(* asynchronous-job poller (src/docutray/_polling.py).                     *)
(*                                                                         *)
(* Times are integers in milliseconds for the transport (0.5 s = 500) and  *)
(* in whole poll ticks for the poller; jitter fractions are integer        *)
(* percents (0.25 = 25).  An optional value (Python's None or a value) is  *)
(* a set with at most one element: {} is None.                             *)
(***************************************************************************)
EXTENDS Integers, Sequences, FiniteSets, TLC

VARIABLES
    \* ---- SyncHTTPClient and one request() call at a time ----
    config,          \* SyncHTTPClient._retry_config
    http_client,     \* SyncHTTPClient._client: {} (None) or {resource id}
    created,         \* number of httpx.Client resources created so far
    calls,           \* number of request() calls started on this client
    req_pc,          \* position of the running request() call
    attempt,         \* the loop variable of request()
    attempts,        \* network calls issued by the running request() call
    in_flight,       \* network calls issued and not yet answered
    num_sleeps,      \* backoff sleeps started by the running request() call
    outcomes,        \* what each attempt of the running call got, in order
    response,        \* the response of the last attempt, {} if it had none
    last_exception,  \* request()'s local last_exception
    last_delay,      \* the delay of the last backoff sleep, {} before any
    req_result,      \* what request() returned or raised
    client,          \* request()'s local client: the resource the call uses
    closed,          \* the httpx.Client resources closed so far
    closes,          \* number of close() calls made on this client
    failed_before,   \* whether an attempt of an earlier request() call failed
    \* ---- one wait_for_completion() call ----
    wait_args,       \* the arguments of the call
    w_pc,            \* position of the call
    current_status,  \* wait_for_completion's local current_status
    now,             \* time.monotonic()
    start_time,      \* wait_for_completion's local start_time
    refetches,       \* resource.get_status calls made
    w_sleeps,        \* time.sleep(poll_interval) calls made
    fetch_time,      \* total time spent inside get_status calls
    fetched,         \* the statuses get_status returned, in order
    callbacks,       \* the statuses on_status was invoked with, in order
    w_result,        \* what wait_for_completion returned or raised
    \* ---- one call of a function of the retry policy ----
    policy_call,     \* the function called and its arguments
    policy_result,   \* what it returned
    \* ---- one call of raise_for_status ----
    rfs_response,    \* the response it was called with, {} before the call
    rfs_raised,      \* the exception it raised, {} if none
    retry_after_read,\* what reading RateLimitError.retry_after gave
    \* ---- one Page and the calls made on it ----
    start_page,      \* the page list() returned
    capability,      \* the fetch capability the page was built with
    trav,            \* the iter_pages / auto_paging_iter generators
    np_call,         \* a direct call of next_page() and what it gave
    hn_call,         \* a direct call of has_next_page() and what it gave
    \* ---- one call of a status object's wait() or wait_async() ----
    wait_call,       \* its arguments and what it passes to the poller
    \* ---- one Client used by several threads ----
    constructed,     \* the constructor call made and how it ended
    base_client,     \* the client object built: {} if none
    httpx_client,    \* SyncHTTPClient._client as the threads share it
    resources_made,  \* number of httpx.Client resources created
    resources_closed,\* the resources close() has released
    thread,          \* each thread's position in its first request() call
    \* ---- the same call made in the blocking and in the async mode ----
    mode_case,       \* which call is made in both modes: request or wait
    served,          \* what the server did at each attempt or re-fetch
    on_status_kind,  \* whether the async call's callback is sync or async
    async_request,   \* one AsyncHTTPClient.request() call
    async_wait       \* one wait_for_completion_async() call

reqVars == <<config, http_client, created, calls, req_pc, attempt, attempts,
             in_flight, num_sleeps, outcomes, response, last_exception,
             last_delay, req_result, client, closed, closes, failed_before>>

waitVars == <<wait_args, w_pc, current_status, now, start_time, refetches,
              w_sleeps, fetch_time, fetched, callbacks, w_result>>

policyVars == <<policy_call, policy_result>>

errVars == <<rfs_response, rfs_raised, retry_after_read>>

pageVars == <<start_page, capability, trav, np_call, hn_call>>

callVars == <<wait_call>>

clientVars == <<constructed, base_client, httpx_client, resources_made,
                resources_closed, thread>>

modeVars == <<mode_case, served, on_status_kind, async_request, async_wait>>

otherVars == <<callVars, clientVars, modeVars>>

fnVars == <<policyVars, errVars, pageVars, otherVars>>

vars == <<reqVars, waitVars, fnVars>>

----------------------------------------------------------------------------
(* Bounds of the model. *)

MaxRetries == 2
MaxCalls == 2
MaxTimeout == 3
MaxPollInterval == 2
MaxFetchTime == 1
MaxPolls == 4
MaxAttemptIndex == 5
MaxTotal == 5
MaxLimit == 2
MaxPage == 3
MaxFetches == 5
MaxCloses == 2
NumThreads == 2

----------------------------------------------------------------------------
(* _constants.py *)

DEFAULT_MAX_RETRIES == 2
INITIAL_RETRY_DELAY == 500
MAX_RETRY_DELAY == 8000
EXPONENTIAL_BASE == 2
JITTER_MIN == 25
JITTER_MAX == 50
RETRYABLE_STATUS_CODES == {429, 500, 502, 503, 504}

RetryConfig(max_retries, retryable) ==
    [max_retries |-> max_retries,
     initial_delay |-> INITIAL_RETRY_DELAY,
     max_delay |-> MAX_RETRY_DELAY,
     exponential_base |-> EXPONENTIAL_BASE,
     jitter_min |-> JITTER_MIN,
     jitter_max |-> JITTER_MAX,
     retryable_status_codes |-> retryable]

----------------------------------------------------------------------------
(* _exceptions.py *)

NoException == [type |-> "None", should_retry |-> FALSE, status_code |-> 0]

APIConnectionError(should_retry_flag) ==
    [type |-> "APIConnectionError", should_retry |-> should_retry_flag,
     status_code |-> 0]

APITimeoutError ==
    [type |-> "APITimeoutError", should_retry |-> TRUE, status_code |-> 0]

\* isinstance(exception, APIConnectionError): APITimeoutError is a subclass.
IsAPIConnectionError(exception) ==
    exception.type \in {"APIConnectionError", "APITimeoutError"}

STATUS_CODE_TO_EXCEPTION ==
    [c \in {400, 401, 403, 404, 409, 422, 429} |->
        CASE c = 400 -> "BadRequestError"
          [] c = 401 -> "AuthenticationError"
          [] c = 403 -> "PermissionDeniedError"
          [] c = 404 -> "NotFoundError"
          [] c = 409 -> "ConflictError"
          [] c = 422 -> "UnprocessableEntityError"
          [] c = 429 -> "RateLimitError"]

is_success_Below500(status_code) == status_code >= 200 /\ status_code < 500

is_success(status_code) == status_code >= 200 /\ status_code < 300

\* The exception class raise_for_status picks for a status code; mutant that
\* takes only the codes above 500 for server errors.
ExceptionClass_ServerErrorAbove500(status_code) ==
    IF status_code \in DOMAIN STATUS_CODE_TO_EXCEPTION
    THEN STATUS_CODE_TO_EXCEPTION[status_code]
    ELSE IF status_code > 500 THEN "InternalServerError" ELSE "APIError"

ExceptionClass(status_code) ==
    IF status_code \in DOMAIN STATUS_CODE_TO_EXCEPTION
    THEN STATUS_CODE_TO_EXCEPTION[status_code]
    ELSE IF status_code >= 500 THEN "InternalServerError" ELSE "APIError"

\* raise_for_status(response): the exception it raises; NoException when it
\* returns (a success response).
raise_for_status(resp) ==
    IF is_success(resp.status_code)
    THEN NoException
    ELSE [type |-> ExceptionClass(resp.status_code), should_retry |-> FALSE,
          status_code |-> resp.status_code]

----------------------------------------------------------------------------
(* _http.py: the retry policy *)

Min(a, b) == IF a <= b THEN a ELSE b
Max(a, b) == IF a >= b THEN a ELSE b

RECURSIVE Pow(_, _)
Pow(b, n) == IF n = 0 THEN 1 ELSE b * Pow(b, n - 1)

TheValue(opt) == CHOOSE x \in opt : TRUE

BackoffBase_Uncapped(attempt_index, cfg) ==
    cfg.initial_delay * Pow(cfg.exponential_base, attempt_index)

\* The capped exponential backoff of calculate_delay, before jitter.
BackoffBase(attempt_index, cfg) ==
    Min(cfg.initial_delay * Pow(cfg.exponential_base, attempt_index),
        cfg.max_delay)

\* The values random.uniform(jitter_min, jitter_max) is drawn from: both
\* ends of the interval and its middle.
JitterDraws(cfg) ==
    {cfg.jitter_min, (cfg.jitter_min + cfg.jitter_max) \div 2, cfg.jitter_max}

calculate_delay_JitterScales(attempt_index, cfg, retry_after, jitter_factor) ==
    LET delay == BackoffBase(attempt_index, cfg)
        jittered == (delay * jitter_factor) \div 100
    IN  IF retry_after # {} THEN Max(jittered, TheValue(retry_after))
        ELSE jittered

calculate_delay_HintReplaces(attempt_index, cfg, retry_after, jitter_factor) ==
    LET delay == BackoffBase(attempt_index, cfg)
        jittered == delay + (delay * jitter_factor) \div 100
    IN  IF retry_after # {} THEN TheValue(retry_after)
        ELSE jittered

\* calculate_delay(attempt, config, retry_after) for the jitter factor drawn.
calculate_delay(attempt_index, cfg, retry_after, jitter_factor) ==
    LET delay == BackoffBase(attempt_index, cfg)
        jittered == delay + (delay * jitter_factor) \div 100
    IN  IF retry_after # {} THEN Max(jittered, TheValue(retry_after))
        ELSE jittered

should_retry_AnyStatus(attempt_index, cfg, exception, status_code) ==
    IF attempt_index >= cfg.max_retries THEN FALSE
    ELSE IF IsAPIConnectionError(exception) THEN exception.should_retry
    ELSE status_code # {}

should_retry_OneMore(attempt_index, cfg, exception, status_code) ==
    IF attempt_index > cfg.max_retries THEN FALSE
    ELSE IF IsAPIConnectionError(exception) THEN exception.should_retry
    ELSE IF status_code # {} /\ status_code \subseteq cfg.retryable_status_codes
         THEN TRUE
    ELSE FALSE

should_retry_StatusFirst(attempt_index, cfg, exception, status_code) ==
    IF attempt_index >= cfg.max_retries THEN FALSE
    ELSE IF status_code # {} /\ status_code \subseteq cfg.retryable_status_codes
         THEN TRUE
    ELSE IF IsAPIConnectionError(exception) THEN exception.should_retry
    ELSE FALSE

should_retry_NoBudget(attempt_index, cfg, exception, status_code) ==
    IF IsAPIConnectionError(exception) THEN exception.should_retry
    ELSE IF status_code # {} /\ status_code \subseteq cfg.retryable_status_codes
         THEN TRUE
    ELSE FALSE

\* should_retry(attempt, config, exception, status_code); exception is
\* NoException and status_code is {} when not given.
should_retry(attempt_index, cfg, exception, status_code) ==
    IF attempt_index >= cfg.max_retries THEN FALSE
    ELSE IF IsAPIConnectionError(exception) THEN exception.should_retry
    ELSE IF status_code # {} /\ status_code \subseteq cfg.retryable_status_codes
         THEN TRUE
    ELSE FALSE

\* float(retry_after) of _get_retry_after, in milliseconds: {} on ValueError.
ParseFloat(text) ==
    CASE text = "2" -> {2000}
      [] text = "0.01" -> {10}
      [] OTHER -> {}

get_retry_after_NoHint(resp) == {}

\* _get_retry_after(response): the header is {} when absent.
get_retry_after(resp) ==
    IF resp.retry_after_header = {} THEN {}
    ELSE ParseFloat(TheValue(resp.retry_after_header))

----------------------------------------------------------------------------
(* _http.py: SyncHTTPClient *)

\* What one network call can give: a response, or one of httpx's exceptions.
ResponseStatuses == {200, 400, 418, 429, 500}
RetryAfterHeaders == {{}, {"2"}, {"soon"}}

Responses ==
    [status_code : ResponseStatuses, retry_after_header : RetryAfterHeaders]

AttemptOutcomes ==
    [kind : {"response"}, resp : Responses]
    \cup [kind : {"TimeoutException", "RequestError"},
          resp : {[status_code |-> 0, retry_after_header |-> {}]}]

\* The entry of the outcomes history for an outcome.
OutcomeTag(o) ==
    IF o.kind = "response" THEN o.resp.status_code
    ELSE IF o.kind = "TimeoutException" THEN -1 ELSE -2

\* What request() ended with, and where: inside the retry loop or in the code
\* after it.
Pending == [outcome |-> "pending", response |-> {}, error |-> NoException,
            where |-> "none"]
Returned(resp) == [outcome |-> "returned", response |-> {resp},
                   error |-> NoException, where |-> "loop"]
Raised(exc) == [outcome |-> "raised", response |-> {}, error |-> exc,
                where |-> "loop"]

RetryableSets == {RETRYABLE_STATUS_CODES, {400, 500}}

InitRequest ==
    /\ config \in {RetryConfig(m, r) : m \in 0..MaxRetries, r \in RetryableSets}
    /\ http_client = {}
    /\ created = 0
    /\ calls = 0
    /\ req_pc = "idle"
    /\ attempt = 0
    /\ attempts = 0
    /\ in_flight = 0
    /\ num_sleeps = 0
    /\ outcomes = <<>>
    /\ response = {}
    /\ last_exception = NoException
    /\ last_delay = {}
    /\ req_result = Pending
    /\ client = {}
    /\ closed = {}
    /\ closes = 0
    /\ failed_before = FALSE

\* range(self._retry_config.max_retries + 1): the values of the loop variable.
LoopRange_OneShort(cfg) == 0..(cfg.max_retries - 1)

LoopRange(cfg) == 0..cfg.max_retries

\* The code after the loop: raise last_exception, or the safety net.
AfterLoop(exc) ==
    [Raised(IF exc # NoException THEN exc ELSE APIConnectionError(TRUE))
        EXCEPT !.where = "after_loop"]

\* _ensure_client: `if self._client is None`; mutant that creates a resource
\* at every call.
NeedsClient_Always(held) == TRUE

NeedsClient(held) == held = {}

\* The first value of the loop variable of a call; mutant in which a call
\* goes on from the attempt index the call before it ended with.
FirstAttempt_Resumed == attempt

FirstAttempt == 0

\* request(): entry, up to the first iteration of the loop.
\* _ensure_client creates the connection resource when none is held.
Request ==
    /\ req_pc \in {"idle", "returned", "raised"}
    /\ calls < MaxCalls
    /\ calls' = calls + 1
    /\ IF NeedsClient(http_client)
       THEN /\ created' = created + 1
            /\ http_client' = {created + 1}
       ELSE UNCHANGED <<created, http_client>>
    /\ client' = http_client'
    /\ last_exception' = NoException
    /\ attempt' = FirstAttempt
    /\ attempts' = 0
    /\ failed_before' =
           (failed_before
               \/ \E i \in 1..Len(outcomes) : ~is_success(outcomes[i]))
    /\ num_sleeps' = 0
    /\ outcomes' = <<>>
    /\ response' = {}
    /\ last_delay' = {}
    /\ IF FirstAttempt \in LoopRange(config)
       THEN /\ req_result' = Pending
            /\ req_pc' = "send"
       ELSE /\ req_result' = AfterLoop(NoException)
            /\ req_pc' = "raised"
    /\ UNCHANGED <<config, in_flight, closed, closes>>
    /\ UNCHANGED <<waitVars, fnVars>>

\* client.request(method, path, **kwargs) is issued.
SendAttempt ==
    /\ req_pc = "send"
    /\ attempts' = attempts + 1
    /\ in_flight' = in_flight + 1
    /\ req_pc' = "inflight"
    /\ UNCHANGED <<config, http_client, created, calls, attempt, num_sleeps,
                   outcomes, response, last_exception, last_delay, req_result>>
    /\ UNCHANGED <<client, closed, closes, failed_before>>
    /\ UNCHANGED <<waitVars, fnVars>>

\* The retry decision of one loop iteration after a failure: sleep and
\* continue, or raise exc.
RetryOrRaise(retry, retry_after, exc, jitter_factor) ==
    IF retry
    THEN /\ last_delay' =
              {calculate_delay(attempt, config, retry_after, jitter_factor)}
         /\ num_sleeps' = num_sleeps + 1
         /\ req_pc' = "sleeping"
         /\ UNCHANGED req_result
    ELSE /\ req_result' = Raised(exc)
         /\ req_pc' = "raised"
         /\ UNCHANGED <<last_delay, num_sleeps>>

\* The body of the loop handles the outcome o of the network call; the
\* jitter factor is the one random.uniform gives if the loop sleeps.
HandleOutcome(o, jitter_factor) ==
    /\ req_pc = "inflight"
    /\ in_flight' = in_flight - 1
    /\ outcomes' = Append(outcomes, OutcomeTag(o))
    /\ IF o.kind = "response"
       THEN /\ response' = {o.resp}
            /\ UNCHANGED last_exception
            /\ IF is_success(o.resp.status_code)
               THEN /\ req_result' = Returned(o.resp)
                    /\ req_pc' = "returned"
                    /\ UNCHANGED <<last_delay, num_sleeps>>
               ELSE RetryOrRaise(
                        should_retry(attempt, config, NoException,
                                     {o.resp.status_code}),
                        get_retry_after(o.resp),
                        raise_for_status(o.resp),
                        jitter_factor)
       ELSE LET exc == IF o.kind = "TimeoutException"
                       THEN APITimeoutError
                       ELSE APIConnectionError(TRUE)
            IN  /\ response' = {}
                /\ last_exception' = exc
                /\ RetryOrRaise(should_retry(attempt, config, exc, {}),
                                {}, exc, jitter_factor)
    /\ UNCHANGED <<config, http_client, created, calls, attempt, attempts>>
    /\ UNCHANGED <<client, closed, closes, failed_before>>

\* The network call answers, and the body of the loop handles the answer.
ReceiveOutcome ==
    /\ \E o \in AttemptOutcomes, jitter_factor \in JitterDraws(config) :
           HandleOutcome(o, jitter_factor)
    /\ UNCHANGED <<waitVars, fnVars>>

\* time.sleep(delay) returns and `continue` takes the loop to its next
\* iteration; when the range is used up the code after the loop runs.
SleepDone ==
    /\ req_pc = "sleeping"
    /\ IF attempt + 1 \in LoopRange(config)
       THEN /\ attempt' = attempt + 1
            /\ req_pc' = "send"
            /\ UNCHANGED req_result
       ELSE /\ req_result' = AfterLoop(last_exception)
            /\ req_pc' = "raised"
            /\ UNCHANGED attempt
    /\ UNCHANGED <<config, http_client, created, calls, attempts, in_flight,
                   num_sleeps, outcomes, response, last_exception, last_delay>>
    /\ UNCHANGED <<client, closed, closes, failed_before>>
    /\ UNCHANGED <<waitVars, fnVars>>

\* close(), between request() calls: the resource held is closed and
\* forgotten; with none held nothing happens.
Close ==
    /\ req_pc \in {"idle", "returned", "raised"}
    /\ closes < MaxCloses
    /\ closes' = closes + 1
    /\ IF http_client # {}
       THEN /\ closed' = closed \cup http_client
            /\ http_client' = {}
       ELSE UNCHANGED <<closed, http_client>>
    /\ UNCHANGED <<config, created, calls, req_pc, attempt, attempts,
                   in_flight, num_sleeps, outcomes, response, last_exception,
                   last_delay, req_result, client, failed_before>>
    /\ UNCHANGED <<waitVars, fnVars>>

NextRequest ==
    \/ Request
    \/ SendAttempt
    \/ ReceiveOutcome
    \/ SleepDone
    \/ Close

----------------------------------------------------------------------------
(* types/convert.py, types/identify.py, types/step.py: the status objects *)

StatusKinds == {"ConversionStatus", "IdentificationStatus",
                "StepExecutionStatus"}
StatusTypes == {"ENQUEUED", "PROCESSING", "SUCCESS", "ERROR"}
JobIds == {"j1", "j2"}

\* A status object: its class, its id field (conversion_id,
\* identification_id or execution_id), its status field, and which object it
\* is: seq 0 is the object wait() was called on, seq k the object the k-th
\* get_status call returned.
Status(kind, id, status, seq) ==
    [kind |-> kind, id |-> id, status |-> status, seq |-> seq]

is_complete_OnlySuccess(st) == st.status = "SUCCESS"

is_complete_NotQueued(st) == st.status # "ENQUEUED"

is_complete(st) == st.status \in {"SUCCESS", "ERROR"}

----------------------------------------------------------------------------
(* _polling.py: wait_for_completion *)

NoMessage == [prefix |-> "", id |-> {}, timeout |-> {}]

TimeoutMessage_NoId(st, timeout) ==
    [prefix |-> "Operation", id |-> {}, timeout |-> {timeout}]

\* The message of the APITimeoutError wait_for_completion raises for st.
TimeoutMessage(st, timeout) ==
    CASE st.kind = "ConversionStatus" ->
             [prefix |-> "Conversion", id |-> {st.id}, timeout |-> {timeout}]
      [] st.kind = "IdentificationStatus" ->
             [prefix |-> "Identification", id |-> {st.id},
              timeout |-> {timeout}]
      [] st.kind = "StepExecutionStatus" ->
             [prefix |-> "Step execution", id |-> {st.id},
              timeout |-> {timeout}]
      [] OTHER -> [prefix |-> "Operation", id |-> {}, timeout |-> {timeout}]

WaitPending == [outcome |-> "pending", status |-> {}, error |-> "None",
                message |-> NoMessage]
WaitReturned(st) == [outcome |-> "returned", status |-> {st},
                     error |-> "None", message |-> NoMessage]
WaitRaised(type, message) == [outcome |-> "raised", status |-> {},
                              error |-> type, message |-> message]

\* The errors a get_status call can end with: those request() raises.
TransportErrors == {"APIConnectionError", "NotFoundError"}

WaitArgs ==
    [status : {Status(k, i, s, 0) :
                  k \in StatusKinds, i \in JobIds, s \in StatusTypes},
     has_resource : BOOLEAN,
     poll_interval : 0..MaxPollInterval,
     timeout : 0..MaxTimeout,
     has_on_status : BOOLEAN]

InitWait ==
    /\ wait_args \in WaitArgs
    /\ w_pc = "start"
    /\ current_status = wait_args.status
    /\ now = 0
    /\ start_time = 0
    /\ refetches = 0
    /\ w_sleeps = 0
    /\ fetch_time = 0
    /\ fetched = <<>>
    /\ callbacks = <<>>
    /\ w_result = WaitPending

MissingResource_Unchecked(args) == FALSE

\* resource = getattr(status, "_resource", None); resource is None
MissingResource(args) == ~args.has_resource

\* `while True:` the first statement of the loop body is the completion
\* check; mutant in which it is the timeout check.
LoopTop_TimeoutFirst == "timeout_check"

LoopTop == "loop"

\* Entry: the _resource check, then start_time and current_status are set.
WaitStart ==
    /\ w_pc = "start"
    /\ IF MissingResource(wait_args)
       THEN /\ w_result' = WaitRaised("ValueError", NoMessage)
            /\ w_pc' = "raised"
       ELSE /\ w_pc' = LoopTop
            /\ UNCHANGED w_result
    /\ start_time' = now
    /\ current_status' = wait_args.status
    /\ UNCHANGED <<wait_args, now, refetches, w_sleeps, fetch_time, fetched,
                   callbacks>>
    /\ UNCHANGED <<reqVars, fnVars>>

\* Top of the loop: if current_status.is_complete(): return current_status.
CheckComplete ==
    /\ w_pc = "loop"
    /\ IF is_complete(current_status)
       THEN /\ w_result' = WaitReturned(current_status)
            /\ w_pc' = "returned"
       ELSE /\ w_pc' = "timeout_check"
            /\ UNCHANGED w_result
    /\ UNCHANGED <<wait_args, current_status, now, start_time, refetches,
                   w_sleeps, fetch_time, fetched, callbacks>>
    /\ UNCHANGED <<reqVars, fnVars>>

\* elapsed = time.monotonic() - start_time
Elapsed == now - start_time

TimedOut_Strict(elapsed, timeout) == elapsed > timeout

\* The condition under which the loop raises APITimeoutError.
TimedOut(elapsed, timeout) == elapsed >= timeout

\* The timeout check of the loop.
CheckTimeout ==
    /\ w_pc = "timeout_check"
    /\ IF TimedOut(Elapsed, wait_args.timeout)
       THEN /\ w_result' =
                  WaitRaised("APITimeoutError",
                             TimeoutMessage(current_status, wait_args.timeout))
            /\ w_pc' = "raised"
       ELSE /\ w_pc' = "sleep"
            /\ UNCHANGED w_result
    /\ UNCHANGED <<wait_args, current_status, now, start_time, refetches,
                   w_sleeps, fetch_time, fetched, callbacks>>
    /\ UNCHANGED <<reqVars, fnVars>>

\* time.sleep(poll_interval)
Sleep ==
    /\ w_pc = "sleep"
    /\ refetches < MaxPolls
    /\ now' = now + wait_args.poll_interval
    /\ w_sleeps' = w_sleeps + 1
    /\ w_pc' = "fetch"
    /\ UNCHANGED <<wait_args, current_status, start_time, refetches,
                   fetch_time, fetched, callbacks, w_result>>
    /\ UNCHANGED <<reqVars, fnVars>>

RefetchRaises_Swallowed(e) ==
    /\ w_pc' = "loop"
    /\ UNCHANGED <<w_result, current_status, fetched>>

\* resource.get_status raises e: nothing in the loop catches it, so it leaves
\* wait_for_completion as it is.
RefetchRaises(e) ==
    /\ w_result' = WaitRaised(e, NoMessage)
    /\ w_pc' = "raised"
    /\ UNCHANGED <<current_status, fetched>>

\* current_status = resource.get_status(<id of current_status>): the call
\* takes some time and returns a new status object for that id, or raises.
\* What a get_status call can do: take some time, then serve a status or
\* raise a transport error.
FetchOutcomes ==
    [took : 0..MaxFetchTime, status : StatusTypes, error : {"None"}]
    \cup [took : 0..MaxFetchTime, status : {"None"}, error : TransportErrors]

\* The re-fetch step of the loop for the outcome f of the get_status call.
HandleFetch(f) ==
    /\ w_pc = "fetch"
    /\ refetches' = refetches + 1
    /\ now' = now + f.took
    /\ fetch_time' = fetch_time + f.took
    /\ IF f.error = "None"
       THEN LET new == Status(current_status.kind, current_status.id,
                              f.status, refetches + 1)
            IN  /\ current_status' = new
                /\ fetched' = Append(fetched, new)
                /\ w_pc' = "callback"
                /\ UNCHANGED w_result
       ELSE RefetchRaises(f.error)
    /\ UNCHANGED <<wait_args, start_time, w_sleeps, callbacks>>

Refetch ==
    /\ \E f \in FetchOutcomes : HandleFetch(f)
    /\ UNCHANGED <<reqVars, fnVars>>

OnStatusGiven_NotForFinal(args, st) == args.has_on_status /\ ~is_complete(st)

\* if on_status is not None
OnStatusGiven(args, st) == args.has_on_status

\* The callback step of the loop, with the freshly fetched status.
InvokeCallback ==
    /\ w_pc = "callback"
    /\ callbacks' = IF OnStatusGiven(wait_args, current_status)
                    THEN Append(callbacks, current_status)
                    ELSE callbacks
    /\ w_pc' = LoopTop
    /\ UNCHANGED <<wait_args, current_status, now, start_time, refetches,
                   w_sleeps, fetch_time, fetched, w_result>>
    /\ UNCHANGED <<reqVars, fnVars>>

NextWait ==
    \/ WaitStart
    \/ CheckComplete
    \/ CheckTimeout
    \/ Sleep
    \/ Refetch
    \/ InvokeCallback

----------------------------------------------------------------------------
(* _pagination.py: Page *)

\* The sequence <<a, a+1, ..., b>>, empty if a > b.
Range(a, b) == [k \in 1..(b - a + 1) |-> a + k - 1]

\* Page(data, pagination, fetch_page): the items are numbered in server
\* order.
Page(data, total, page, limit) ==
    [data |-> data, total |-> total, page |-> page, limit |-> limit]

\* Page n as a server holding items 1..total serves it.
ServerPage(total, limit, n) ==
    Page(Range((n - 1) * limit + 1, Min(n * limit, total)), total, n, limit)

\* The fetch capabilities a page is built with: one that asks a consistent
\* server for the page, and one that returns the page it belongs to whatever
\* the number asked for.
FetchCapabilities == {"consistent", "same"}

\* self._fetch_page(n)
fetch_page(cap, self, n) ==
    IF cap = "consistent" THEN ServerPage(self.total, self.limit, n)
    ELSE self

\* Page.has_next_page(); mutant that compares with <=.
has_next_page_Inclusive(self) == self.page * self.limit <= self.total

has_next_page(self) == self.page * self.limit < self.total

\* Page.next_page(): what it raises, the page numbers it asked the fetch
\* cap for, and the page it returns; mutant that fetches before it
\* checks.
next_page_FetchFirst(cap, self) ==
    IF ~has_next_page(self)
    THEN [raised |-> "StopIteration", message |-> "No more pages",
          requested |-> <<self.page + 1>>, returned |-> {}]
    ELSE [raised |-> "None", message |-> "",
          requested |-> <<self.page + 1>>,
          returned |-> {fetch_page(cap, self, self.page + 1)}]

next_page(cap, self) ==
    IF ~has_next_page(self)
    THEN [raised |-> "StopIteration", message |-> "No more pages",
          requested |-> <<>>, returned |-> {}]
    ELSE [raised |-> "None", message |-> "",
          requested |-> <<self.page + 1>>,
          returned |-> {fetch_page(cap, self, self.page + 1)}]

\* The pages list() can return: the server's page, a page without items, or
\* a page with one item, whatever the pagination says.
StartPages ==
    {Page(data, total, page, limit) :
        total \in 0..MaxTotal, page \in 1..MaxPage, limit \in 1..MaxLimit,
        data \in {<<>>, <<1>>}}
    \cup {ServerPage(total, limit, page) :
        total \in 0..MaxTotal, page \in 1..MaxPage, limit \in 1..MaxLimit}

\* The pages has_next_page() is called on directly.
ProbePages ==
    {Page(<<>>, total, page, limit) :
        total \in {0, 5, 19, 20, 21}, page \in 1..MaxPage,
        limit \in {1, 2, 10}}

\* The traversals a consumer runs on the start page.
Traversals == {1, 2}

\* A traversal that has not been created.
NoTraversal ==
    [mode |-> "none", pc |-> "suspended", need_yield |-> FALSE,
     page |-> Page(<<>>, 0, 1, 1), idx |-> 0, pages |-> <<>>, items |-> <<>>,
     asked |-> 0, requested |-> <<>>]

NoNextPageCall ==
    [called |-> FALSE, raised |-> "None", message |-> "", requested |-> <<>>,
     returned |-> {}]

NoHasNextCall == [called |-> FALSE, page |-> Page(<<>>, 0, 1, 1),
                  result |-> FALSE]

InitPages ==
    /\ start_page \in StartPages
    /\ capability \in FetchCapabilities
    /\ trav = [i \in Traversals |-> NoTraversal]
    /\ np_call = NoNextPageCall
    /\ hn_call = NoHasNextCall

NothingCalledOnPage ==
    /\ ~np_call.called
    /\ ~hn_call.called
    /\ \A i \in Traversals : trav[i].mode = "none"

\* has_next_page() is called on the start page or on some other page.
CallHasNextPage ==
    /\ NothingCalledOnPage
    /\ \E pg \in ProbePages \cup {start_page} :
        hn_call' = [called |-> TRUE, page |-> pg, result |-> has_next_page(pg)]
    /\ UNCHANGED <<start_page, capability, trav, np_call>>
    /\ UNCHANGED <<reqVars, waitVars, policyVars, errVars, otherVars>>

\* start_page.next_page() is called.
CallNextPage ==
    /\ NothingCalledOnPage
    /\ LET r == next_page(capability, start_page)
       IN  np_call' = [called |-> TRUE, raised |-> r.raised,
                       message |-> r.message, requested |-> r.requested,
                       returned |-> r.returned]
    /\ UNCHANGED <<start_page, capability, trav, hn_call>>
    /\ UNCHANGED <<reqVars, waitVars, policyVars, errVars, otherVars>>

\* iter_pages yields the page it holds before it checks has_next_page()
\* (`while True: yield page`); mutant that checks first.
YieldFirst_CheckFirst == FALSE

YieldFirst == TRUE

\* The item `yield from page.data` yields after idx items of the page;
\* mutant that yields them from the end.
NextItem_FromEnd(data, idx) == data[Len(data) - idx]

NextItem(data, idx) == data[idx + 1]

\* The generator frame that holds the local variable `page` of traversal i:
\* its own; mutant in which the traversals share one.
Frame_Shared(i) == 1

Frame(i) == i

\* start_page.iter_pages() or start_page.auto_paging_iter() is called: the
\* generator is created and runs nothing yet.
StartTraversal(i, mode) ==
    /\ ~np_call.called
    /\ ~hn_call.called
    /\ trav[i].mode = "none"
    /\ trav' = [trav EXCEPT ![i].mode = mode,
                            ![i].need_yield = YieldFirst,
                            ![Frame(i)].page = start_page]
    /\ UNCHANGED <<start_page, capability, np_call, hn_call>>
    /\ UNCHANGED <<reqVars, waitVars, policyVars, errVars, otherVars>>

\* The consumer asks traversal i for its next element: next(generator).
Ask(i) ==
    /\ trav[i].mode # "none"
    /\ trav[i].pc = "suspended"
    /\ trav' = [trav EXCEPT ![i].pc = "running", ![i].asked = @ + 1]
    /\ UNCHANGED <<start_page, capability, np_call, hn_call>>
    /\ UNCHANGED <<reqVars, waitVars, policyVars, errVars, otherVars>>

\* iter_pages: `yield page`, to the consumer.
YieldPage(i) ==
    /\ trav[i].mode = "pages"
    /\ trav[i].pc = "running"
    /\ trav[i].need_yield
    /\ trav' = [trav EXCEPT ![i].pages = Append(@, trav[Frame(i)].page),
                            ![i].need_yield = FALSE,
                            ![i].pc = "suspended"]
    /\ UNCHANGED <<start_page, capability, np_call, hn_call>>
    /\ UNCHANGED <<reqVars, waitVars, policyVars, errVars, otherVars>>

\* auto_paging_iter: iter_pages yields `page` to the for loop, which starts
\* on its data.
EnterPage(i) ==
    /\ trav[i].mode = "items"
    /\ trav[i].pc = "running"
    /\ trav[i].need_yield
    /\ trav' = [trav EXCEPT ![i].pages = Append(@, trav[Frame(i)].page),
                            ![i].need_yield = FALSE,
                            ![i].idx = 0]
    /\ UNCHANGED <<start_page, capability, np_call, hn_call>>
    /\ UNCHANGED <<reqVars, waitVars, policyVars, errVars, otherVars>>

\* auto_paging_iter: `yield from page.data` yields the next item.
YieldItem(i) ==
    /\ trav[i].mode = "items"
    /\ trav[i].pc = "running"
    /\ ~trav[i].need_yield
    /\ trav[i].idx < Len(trav[Frame(i)].page.data)
    /\ trav' = [trav EXCEPT
                   ![i].items = Append(@, NextItem(trav[Frame(i)].page.data,
                                                    trav[i].idx)),
                   ![i].idx = @ + 1,
                   ![i].pc = "suspended"]
    /\ UNCHANGED <<start_page, capability, np_call, hn_call>>
    /\ UNCHANGED <<reqVars, waitVars, policyVars, errVars, otherVars>>

\* Traversal i is past the yield of its page (and, for items, past the
\* page's last item); mutant that does not wait for the items.
PageExhausted_Eager(i) ==
    /\ trav[i].mode # "none"
    /\ trav[i].pc = "running"
    /\ ~trav[i].need_yield

PageExhausted(i) ==
    /\ trav[i].mode # "none"
    /\ trav[i].pc = "running"
    /\ ~trav[i].need_yield
    /\ trav[i].mode = "items" => trav[i].idx >= Len(trav[Frame(i)].page.data)

\* iter_pages: `if not page.has_next_page(): break`: the generator returns.
FinishTraversal(i) ==
    /\ PageExhausted(i)
    /\ ~has_next_page(trav[Frame(i)].page)
    /\ trav' = [trav EXCEPT ![i].pc = "done"]
    /\ UNCHANGED <<start_page, capability, np_call, hn_call>>
    /\ UNCHANGED <<reqVars, waitVars, policyVars, errVars, otherVars>>

\* iter_pages: `page = page.next_page()`.
FetchNextPage(i) ==
    /\ PageExhausted(i)
    /\ has_next_page(trav[Frame(i)].page)
    /\ Len(trav[i].requested) < MaxFetches
    /\ LET r == next_page(capability, trav[Frame(i)].page)
       IN  trav' = [trav EXCEPT ![i].requested = @ \o r.requested,
                                ![i].need_yield = TRUE,
                                ![Frame(i)].page = TheValue(r.returned)]
    /\ UNCHANGED <<start_page, capability, np_call, hn_call>>
    /\ UNCHANGED <<reqVars, waitVars, policyVars, errVars, otherVars>>

NextPages ==
    \/ CallHasNextPage
    \/ CallNextPage
    \/ \E i \in Traversals, mode \in {"pages", "items"} : StartTraversal(i, mode)
    \/ \E i \in Traversals : Ask(i)
    \/ \E i \in Traversals : YieldPage(i)
    \/ \E i \in Traversals : EnterPage(i)
    \/ \E i \in Traversals : YieldItem(i)
    \/ \E i \in Traversals : FinishTraversal(i)
    \/ \E i \in Traversals : FetchNextPage(i)

----------------------------------------------------------------------------
(* types/convert.py, types/identify.py, types/step.py: wait(), wait_async() *)

DEFAULT_POLL_INTERVAL == 2
DEFAULT_POLL_TIMEOUT == 300

WaitMethods == {"wait", "wait_async"}

\* Python's truth value of an optional number: None and 0 are false.
TruthyNumber(opt) == opt # {} /\ opt # {0}

\* `value or default` for an optional number.
OrDefault(opt, default) == IF TruthyNumber(opt) THEN TheValue(opt) ELSE default

NoWaitCall ==
    [called |-> FALSE, kind |-> "ConversionStatus", method |-> "wait",
     poll_interval |-> {}, timeout |-> {},
     passed_poll_interval |-> 0, passed_timeout |-> 0]

CallIdle == wait_call = NoWaitCall

\* status.wait(poll_interval=p, timeout=t) or status.wait_async(...): the
\* keyword arguments handed to wait_for_completion(_async).  An omitted
\* argument is None, here {}.
CallStatusWait ==
    /\ ~wait_call.called
    /\ \E kind \in StatusKinds, method \in WaitMethods,
          p \in {{}} \cup {{n} : n \in 0..MaxPollInterval},
          t \in {{}} \cup {{n} : n \in 0..MaxTimeout} :
        wait_call' =
            [called |-> TRUE, kind |-> kind, method |-> method,
             poll_interval |-> p, timeout |-> t,
             passed_poll_interval |-> OrDefault(p, DEFAULT_POLL_INTERVAL),
             passed_timeout |-> OrDefault(t, DEFAULT_POLL_TIMEOUT)]
    /\ UNCHANGED <<reqVars, waitVars, policyVars, errVars, pageVars>>
    /\ UNCHANGED <<clientVars, modeVars>>

NextStatusWait == CallStatusWait

----------------------------------------------------------------------------
(* _base_client.py, _http.py: constructing a client, and threads that make  *)
(* their first request() on it                                              *)

Threads == 1..NumThreads

ClientClasses == {"Client", "AsyncClient"}

\* The max_retries arguments a constructor is called with: None is {}.
MaxRetriesArguments ==
    {{}} \cup {{n} : n \in {-2, -1}} \cup {{n} : n \in 0..MaxRetries}

NotConstructed ==
    [called |-> FALSE, class |-> "Client", max_retries |-> {},
     raised |-> "None"]

\* A thread that has not called request(): made is the resource it created,
\* got the resource _ensure_client returned to it, ran_with the max_retries
\* its retry loop reads.
ThreadIdle == [pc |-> "idle", made |-> {}, got |-> {}, ran_with |-> {}]

ClientIdle ==
    /\ constructed = NotConstructed
    /\ base_client = {}
    /\ httpx_client = {}
    /\ resources_made = 0
    /\ resources_closed = {}
    /\ thread = [t \in Threads |-> ThreadIdle]

\* self._max_retries = max_retries if max_retries is not None else
\* DEFAULT_MAX_RETRIES
ResolvedMaxRetries(arg) ==
    IF arg # {} THEN TheValue(arg) ELSE DEFAULT_MAX_RETRIES

InvalidMaxRetries_BelowMinusOne(n) == n < -1

\* if self._max_retries < 0: raise ValueError("max_retries must be >= 0")
InvalidMaxRetries(n) == n < 0

\* DEFAULT_RETRY_CONFIG.with_max_retries(max_retries)
with_max_retries(cfg, max_retries) ==
    [cfg EXCEPT !.max_retries = max_retries]

DEFAULT_RETRY_CONFIG ==
    RetryConfig(DEFAULT_MAX_RETRIES, RETRYABLE_STATUS_CODES)

\* Client(max_retries=...) or AsyncClient(max_retries=...), with an API key.
Construct ==
    /\ ~constructed.called
    /\ \E class \in ClientClasses, arg \in MaxRetriesArguments :
        LET n == ResolvedMaxRetries(arg)
        IN  IF InvalidMaxRetries(n)
            THEN /\ constructed' =
                       [called |-> TRUE, class |-> class,
                        max_retries |-> arg, raised |-> "ValueError"]
                 /\ UNCHANGED base_client
            ELSE /\ constructed' =
                       [called |-> TRUE, class |-> class,
                        max_retries |-> arg, raised |-> "None"]
                 /\ base_client' =
                       {[class |-> class,
                         retry_config |->
                             with_max_retries(DEFAULT_RETRY_CONFIG, n)]}
    /\ UNCHANGED <<httpx_client, resources_made, resources_closed, thread>>
    /\ UNCHANGED <<reqVars, waitVars, policyVars, errVars, pageVars, callVars,
                   modeVars>>

\* What a thread's step leaves alone.
ThreadFrame ==
    /\ UNCHANGED <<constructed, base_client, resources_closed>>
    /\ UNCHANGED <<reqVars, waitVars, policyVars, errVars, pageVars, callVars,
                   modeVars>>

\* A thread calls request() on the SyncHTTPClient of a Client: the call
\* starts with client = self._ensure_client().
BeginRequest(t) ==
    /\ thread[t].pc = "idle"
    /\ \E c \in base_client : c.class = "Client"
    /\ resources_closed = {}
    /\ thread' = [thread EXCEPT ![t].pc = "check"]
    /\ UNCHANGED <<httpx_client, resources_made>>
    /\ ThreadFrame

\* _ensure_client: `if self._client is None:` is evaluated.
CheckClient(t) ==
    /\ thread[t].pc = "check"
    /\ thread' = [thread EXCEPT
                     ![t].pc = IF httpx_client = {} THEN "create"
                               ELSE "return"]
    /\ UNCHANGED <<httpx_client, resources_made>>
    /\ ThreadFrame

\* _ensure_client: httpx.Client(...) is built.
CreateClient(t) ==
    /\ thread[t].pc = "create"
    /\ resources_made' = resources_made + 1
    /\ thread' = [thread EXCEPT ![t].pc = "assign",
                                ![t].made = {resources_made + 1}]
    /\ UNCHANGED httpx_client
    /\ ThreadFrame

\* _ensure_client: self._client = <the resource built>.
AssignClient(t) ==
    /\ thread[t].pc = "assign"
    /\ httpx_client' = thread[t].made
    /\ thread' = [thread EXCEPT ![t].pc = "return"]
    /\ UNCHANGED resources_made
    /\ ThreadFrame

\* _ensure_client: return self._client; request() keeps it as its local
\* client.
ReturnClient(t) ==
    /\ thread[t].pc = "return"
    /\ thread' = [thread EXCEPT ![t].pc = "loop", ![t].got = httpx_client]
    /\ UNCHANGED <<httpx_client, resources_made>>
    /\ ThreadFrame

\* request(): the retry loop runs over range(self._retry_config.max_retries
\* + 1) with the config the client was built with, to the end of the call.
RunLoop(t) ==
    /\ thread[t].pc = "loop"
    /\ thread' = [thread EXCEPT
                     ![t].pc = "done",
                     ![t].ran_with =
                         {c.retry_config.max_retries : c \in base_client}]
    /\ UNCHANGED <<httpx_client, resources_made>>
    /\ ThreadFrame

\* close(), after the threads' calls: the resource self._client holds is
\* closed and forgotten.
CloseClient ==
    /\ \A t \in Threads : thread[t].pc = "done"
    /\ httpx_client # {}
    /\ resources_closed' = resources_closed \cup httpx_client
    /\ httpx_client' = {}
    /\ UNCHANGED <<constructed, base_client, resources_made, thread>>
    /\ UNCHANGED <<reqVars, waitVars, policyVars, errVars, pageVars, callVars,
                   modeVars>>

NextClient ==
    \/ Construct
    \/ \E t \in Threads : BeginRequest(t)
    \/ \E t \in Threads : CheckClient(t)
    \/ \E t \in Threads : CreateClient(t)
    \/ \E t \in Threads : AssignClient(t)
    \/ \E t \in Threads : ReturnClient(t)
    \/ \E t \in Threads : RunLoop(t)
    \/ CloseClient

----------------------------------------------------------------------------
(* _http.py: AsyncHTTPClient.request, _polling.py: wait_for_completion_async. *)
(* The blocking call is made first; what the server did at each attempt or  *)
(* re-fetch is kept in `served`, and the async call is then made against    *)
(* the same server behaviour.                                               *)

AsyncRequestIdle ==
    [pc |-> "idle", attempt |-> 0, attempts |-> 0, num_sleeps |-> 0,
     last_exception |-> NoException, delays |-> <<>>, result |-> Pending]

AsyncWaitIdle ==
    [pc |-> "idle", current_status |-> Status("ConversionStatus", "j1",
                                               "ENQUEUED", 0),
     now |-> 0, start_time |-> 0, refetches |-> 0, sleeps |-> 0,
     fetched |-> <<>>, callbacks |-> <<>>, result |-> WaitPending]

ModesIdle ==
    /\ mode_case = "none"
    /\ served = <<>>
    /\ on_status_kind = "sync"
    /\ async_request = AsyncRequestIdle
    /\ async_wait = AsyncWaitIdle

CallbackKinds == {"sync", "async"}

\* What a step of the blocking call leaves alone, but for `served`.
BlockingFrame ==
    /\ UNCHANGED <<policyVars, errVars, pageVars, callVars, clientVars>>
    /\ UNCHANGED <<mode_case, on_status_kind, async_request, async_wait>>

\* What a step of either async call leaves alone.
AsyncFrame ==
    /\ UNCHANGED <<reqVars, waitVars>>
    /\ UNCHANGED <<policyVars, errVars, pageVars, callVars, clientVars>>
    /\ UNCHANGED <<mode_case, served, on_status_kind>>

\* The blocking request() call, its outcomes and jitter factors recorded
\* together with the sleep the call made of them.
BlockingRequest ==
    /\ mode_case = "request"
    /\ calls = 0
    /\ Request

BlockingSendAttempt == SendAttempt

\* The outcomes the server gives in the comparison of the two modes: a
\* success, a status that is never retried, one that is, each without and
\* with a Retry-After header, a timeout and a connection failure.
ModeOutcomes ==
    {o \in AttemptOutcomes :
        /\ o.resp.status_code \in {0, 200, 400, 500}
        /\ o.resp.retry_after_header # {"soon"}}

\* The jitter factors drawn in the comparison of the two modes.
ModeJitterDraws(cfg) == {cfg.jitter_min, cfg.jitter_max}

\* The jitter factor is recorded when the call draws one, that is when it
\* sleeps; 0 stands for none drawn.
BlockingReceiveOutcome ==
    /\ \E o \in ModeOutcomes, jitter_factor \in ModeJitterDraws(config) :
        /\ HandleOutcome(o, jitter_factor)
        /\ served' =
               Append(served,
                      [o |-> o,
                       jitter_factor |-> IF req_pc' = "sleeping"
                                         THEN jitter_factor ELSE 0,
                       delay |-> IF req_pc' = "sleeping" THEN last_delay'
                                 ELSE {}])
    /\ UNCHANGED waitVars
    /\ BlockingFrame

BlockingSleepDone == SleepDone

AsyncLoopRange_OneShort(cfg) == 0..(cfg.max_retries - 1)

\* range(self._retry_config.max_retries + 1) of AsyncHTTPClient.request.
AsyncLoopRange(cfg) == 0..cfg.max_retries

\* AsyncHTTPClient.request(): entry, up to the first iteration of the loop.
AsyncRequest ==
    /\ mode_case = "request"
    /\ req_pc \in {"returned", "raised"}
    /\ async_request.pc = "idle"
    /\ async_request' =
           IF 0 \in AsyncLoopRange(config)
           THEN [async_request EXCEPT !.pc = "send", !.attempt = 0,
                                      !.last_exception = NoException]
           ELSE [async_request EXCEPT !.pc = "raised",
                                      !.result = AfterLoop(NoException)]
    /\ UNCHANGED async_wait
    /\ AsyncFrame

\* response = await client.request(method, path, **kwargs) is issued.
AsyncSendAttempt ==
    /\ async_request.pc = "send"
    /\ async_request' =
           [async_request EXCEPT !.pc = "inflight",
                                 !.attempts = async_request.attempts + 1]
    /\ UNCHANGED async_wait
    /\ AsyncFrame

\* The retry decision of one iteration of the async loop.
AsyncRetryOrRaise(retry, retry_after, exc, last, jitter_factor) ==
    IF retry
    THEN [async_request EXCEPT
            !.pc = "sleeping",
            !.last_exception = last,
            !.num_sleeps = async_request.num_sleeps + 1,
            !.delays =
                Append(async_request.delays,
                       calculate_delay(async_request.attempt, config,
                                       retry_after, jitter_factor))]
    ELSE [async_request EXCEPT !.pc = "raised", !.last_exception = last,
                               !.result = Raised(exc)]

\* The awaited network call answers with what the server did at this
\* attempt, and the body of the async loop handles it.
AsyncReceiveOutcome ==
    /\ async_request.pc = "inflight"
    /\ async_request.attempts <= Len(served)
    /\ LET o == served[async_request.attempts].o
           jitter_factor == served[async_request.attempts].jitter_factor
           exc == IF o.kind = "TimeoutException" THEN APITimeoutError
                  ELSE APIConnectionError(TRUE)
       IN  async_request' =
               IF o.kind = "response"
               THEN IF is_success(o.resp.status_code)
                    THEN [async_request EXCEPT !.pc = "returned",
                                               !.result = Returned(o.resp)]
                    ELSE AsyncRetryOrRaise(
                             should_retry(async_request.attempt, config,
                                          NoException, {o.resp.status_code}),
                             get_retry_after(o.resp),
                             raise_for_status(o.resp),
                             async_request.last_exception,
                             jitter_factor)
               ELSE AsyncRetryOrRaise(
                        should_retry(async_request.attempt, config, exc, {}),
                        {}, exc, exc, jitter_factor)
    /\ UNCHANGED async_wait
    /\ AsyncFrame

\* await asyncio.sleep(delay) returns and `continue` takes the loop to its
\* next iteration; when the range is used up the code after the loop runs.
AsyncSleepDone ==
    /\ async_request.pc = "sleeping"
    /\ async_request' =
           IF async_request.attempt + 1 \in AsyncLoopRange(config)
           THEN [async_request EXCEPT !.pc = "send",
                                      !.attempt = async_request.attempt + 1]
           ELSE [async_request EXCEPT
                   !.pc = "raised",
                   !.result = AfterLoop(async_request.last_exception)]
    /\ UNCHANGED async_wait
    /\ AsyncFrame

\* The blocking wait_for_completion() call, with what each get_status call
\* did recorded.
BlockingWaitStart ==
    /\ mode_case = "wait"
    /\ WaitStart

BlockingCheckComplete == CheckComplete

BlockingCheckTimeout == CheckTimeout

BlockingSleep == Sleep

\* What get_status does in the comparison of the two modes.
ModeFetchOutcomes == {f \in FetchOutcomes : f.took <= 1}

BlockingRefetch ==
    /\ \E f \in ModeFetchOutcomes :
        /\ HandleFetch(f)
        /\ served' = Append(served, f)
    /\ UNCHANGED reqVars
    /\ BlockingFrame

BlockingInvokeCallback == InvokeCallback

\* wait_for_completion_async: entry, the _resource check, then start_time
\* and current_status are set.
AsyncWaitStart ==
    /\ mode_case = "wait"
    /\ w_pc \in {"returned", "raised"}
    /\ async_wait.pc = "start"
    /\ async_wait' =
           IF MissingResource(wait_args)
           THEN [async_wait EXCEPT
                   !.pc = "raised",
                   !.result = WaitRaised("ValueError", NoMessage),
                   !.start_time = async_wait.now,
                   !.current_status = wait_args.status]
           ELSE [async_wait EXCEPT
                   !.pc = "loop",
                   !.start_time = async_wait.now,
                   !.current_status = wait_args.status]
    /\ UNCHANGED async_request
    /\ AsyncFrame

\* if current_status.is_complete(): return current_status
AsyncCheckComplete ==
    /\ async_wait.pc = "loop"
    /\ async_wait' =
           IF is_complete(async_wait.current_status)
           THEN [async_wait EXCEPT
                   !.pc = "returned",
                   !.result = WaitReturned(async_wait.current_status)]
           ELSE [async_wait EXCEPT !.pc = "timeout_check"]
    /\ UNCHANGED async_request
    /\ AsyncFrame

\* elapsed = time.monotonic() - start_time; if elapsed >= timeout: raise
AsyncCheckTimeout ==
    /\ async_wait.pc = "timeout_check"
    /\ async_wait' =
           IF TimedOut(async_wait.now - async_wait.start_time,
                       wait_args.timeout)
           THEN [async_wait EXCEPT
                   !.pc = "raised",
                   !.result =
                       WaitRaised("APITimeoutError",
                                  TimeoutMessage(async_wait.current_status,
                                                 wait_args.timeout))]
           ELSE [async_wait EXCEPT !.pc = "sleep"]
    /\ UNCHANGED async_request
    /\ AsyncFrame

\* await asyncio.sleep(poll_interval)
AsyncSleep ==
    /\ async_wait.pc = "sleep"
    /\ async_wait.refetches < MaxPolls
    /\ async_wait' =
           [async_wait EXCEPT
              !.pc = "fetch",
              !.now = async_wait.now + wait_args.poll_interval,
              !.sleeps = async_wait.sleeps + 1]
    /\ UNCHANGED async_request
    /\ AsyncFrame

\* current_status = await resource.get_status(<id of current_status>),
\* served as the blocking call's get_status of the same number was.
AsyncRefetch ==
    /\ async_wait.pc = "fetch"
    /\ async_wait.refetches < Len(served)
    /\ LET f == served[async_wait.refetches + 1]
           new == Status(async_wait.current_status.kind,
                         async_wait.current_status.id, f.status,
                         async_wait.refetches + 1)
       IN  async_wait' =
               IF f.error = "None"
               THEN [async_wait EXCEPT
                       !.pc = "callback",
                       !.refetches = async_wait.refetches + 1,
                       !.now = async_wait.now + f.took,
                       !.current_status = new,
                       !.fetched = Append(async_wait.fetched, new)]
               ELSE [async_wait EXCEPT
                       !.pc = "raised",
                       !.refetches = async_wait.refetches + 1,
                       !.now = async_wait.now + f.took,
                       !.result = WaitRaised(f.error, NoMessage)]
    /\ UNCHANGED async_request
    /\ AsyncFrame

IsCoroutine_Never(kind) == FALSE

\* asyncio.iscoroutine(result) for the result of calling on_status: calling
\* an async function gives a coroutine, whose body runs when it is awaited.
IsCoroutine(kind) == kind = "async"

\* Whether the body of the callback has run when _call_on_status is done:
\* a sync callback runs when called, an async one when its coroutine is
\* awaited.
CallbackRan(kind) == kind = "sync" \/ IsCoroutine(kind)

\* await _call_on_status(current_status)
AsyncInvokeCallback ==
    /\ async_wait.pc = "callback"
    /\ async_wait' =
           [async_wait EXCEPT
              !.pc = "loop",
              !.callbacks =
                  IF wait_args.has_on_status /\ CallbackRan(on_status_kind)
                  THEN Append(async_wait.callbacks,
                              async_wait.current_status)
                  ELSE async_wait.callbacks]
    /\ UNCHANGED async_request
    /\ AsyncFrame

NextModes ==
    \/ BlockingRequest
    \/ BlockingSendAttempt
    \/ BlockingReceiveOutcome
    \/ BlockingSleepDone
    \/ AsyncRequest
    \/ AsyncSendAttempt
    \/ AsyncReceiveOutcome
    \/ AsyncSleepDone
    \/ BlockingWaitStart
    \/ BlockingCheckComplete
    \/ BlockingCheckTimeout
    \/ BlockingSleep
    \/ BlockingRefetch
    \/ BlockingInvokeCallback
    \/ AsyncWaitStart
    \/ AsyncCheckComplete
    \/ AsyncCheckTimeout
    \/ AsyncSleep
    \/ AsyncRefetch
    \/ AsyncInvokeCallback

OtherIdle ==
    /\ CallIdle
    /\ ClientIdle
    /\ ModesIdle

----------------------------------------------------------------------------
(* The specifications: one client serving request() calls, and one         *)
(* wait_for_completion() call.  In each, the other part stays as built.    *)

RequestIdle ==
    /\ config = RetryConfig(DEFAULT_MAX_RETRIES, RETRYABLE_STATUS_CODES)
    /\ http_client = {}
    /\ created = 0
    /\ calls = 0
    /\ req_pc = "idle"
    /\ attempt = 0
    /\ attempts = 0
    /\ in_flight = 0
    /\ num_sleeps = 0
    /\ outcomes = <<>>
    /\ response = {}
    /\ last_exception = NoException
    /\ last_delay = {}
    /\ req_result = Pending
    /\ client = {}
    /\ closed = {}
    /\ closes = 0
    /\ failed_before = FALSE

WaitIdle ==
    /\ wait_args = [status |-> Status("ConversionStatus", "j1", "ENQUEUED", 0),
                    has_resource |-> FALSE, poll_interval |-> 0,
                    timeout |-> 0, has_on_status |-> FALSE]
    /\ w_pc = "idle"
    /\ current_status = wait_args.status
    /\ now = 0
    /\ start_time = 0
    /\ refetches = 0
    /\ w_sleeps = 0
    /\ fetch_time = 0
    /\ fetched = <<>>
    /\ callbacks = <<>>
    /\ w_result = WaitPending

\* No function of the retry policy and no raise_for_status has been called.
NoPolicyCall ==
    [fn |-> "none", attempt |-> 0,
     config |-> RetryConfig(DEFAULT_MAX_RETRIES, RETRYABLE_STATUS_CODES),
     exception |-> NoException, status_code |-> {}, retry_after |-> {},
     jitter_factor |-> 0]

NoPolicyResult == [retry |-> FALSE, delay |-> 0]

\* RateLimitError.retry_after has not been read.
NotRead == [read |-> FALSE, value |-> {}]

PolicyIdle ==
    /\ policy_call = NoPolicyCall
    /\ policy_result = NoPolicyResult

ErrorsIdle ==
    /\ rfs_response = {}
    /\ rfs_raised = {}
    /\ retry_after_read = NotRead

\* No page has been listed and nothing has been called on one.
PagesIdle ==
    /\ start_page = Page(<<>>, 0, 1, 1)
    /\ capability = "consistent"
    /\ trav = [i \in Traversals |-> NoTraversal]
    /\ np_call = NoNextPageCall
    /\ hn_call = NoHasNextCall

FnIdle ==
    /\ PolicyIdle
    /\ ErrorsIdle
    /\ PagesIdle
    /\ OtherIdle

InitSpecRequest ==
    /\ InitRequest
    /\ WaitIdle
    /\ FnIdle

InitSpecWait ==
    /\ InitWait
    /\ RequestIdle
    /\ FnIdle

----------------------------------------------------------------------------
(* _http.py: calls of should_retry and calculate_delay *)

\* The exceptions should_retry is called with: none, the connection-level
\* ones with either flag, and an error of the API that is no connection error.
PolicyExceptions ==
    {NoException, APIConnectionError(TRUE), APIConnectionError(FALSE),
     APITimeoutError,
     [type |-> "InternalServerError", should_retry |-> FALSE,
      status_code |-> 500]}

PolicyStatusCodes == {{}, {200}, {400}, {404}, {429}, {500}, {503}}

\* The configs should_retry is called with.
RetryBudgetConfigs ==
    {RetryConfig(m, r) : m \in 0..MaxRetries, r \in RetryableSets \cup {{}}}

\* The configs calculate_delay is called with: initial_delay <= max_delay,
\* exponential_base > 1, 0 <= jitter_min <= jitter_max <= 1.
DelayConfigs ==
    {[RetryConfig(DEFAULT_MAX_RETRIES, RETRYABLE_STATUS_CODES) EXCEPT
         !.initial_delay = i, !.max_delay = m, !.exponential_base = b,
         !.jitter_min = j[1], !.jitter_max = j[2]] :
        i \in {INITIAL_RETRY_DELAY, 1000}, m \in {2000, MAX_RETRY_DELAY},
        b \in {EXPONENTIAL_BASE, 3},
        j \in {<<0, 0>>, <<JITTER_MIN, JITTER_MAX>>, <<0, 100>>}}

\* The retry_after values calculate_delay is called with, in milliseconds.
RetryAfterHints == {{}, {0}, {100}, {625}, {2000}, {10000}}

\* should_retry(attempt, config, exception, status_code) is called.
CallShouldRetry ==
    /\ policy_call.fn = "none"
    /\ \E a \in 0..MaxAttemptIndex, cfg \in RetryBudgetConfigs,
          exc \in PolicyExceptions, sc \in PolicyStatusCodes :
        /\ policy_call' = [NoPolicyCall EXCEPT
                              !.fn = "should_retry", !.attempt = a,
                              !.config = cfg, !.exception = exc,
                              !.status_code = sc]
        /\ policy_result' = [NoPolicyResult EXCEPT
                                !.retry = should_retry(a, cfg, exc, sc)]
    /\ UNCHANGED errVars
    /\ UNCHANGED <<reqVars, waitVars, pageVars, otherVars>>

\* calculate_delay(attempt, config, retry_after) is called, and
\* random.uniform draws jitter_factor.
CallCalculateDelay ==
    /\ policy_call.fn = "none"
    /\ \E a \in 0..MaxAttemptIndex, cfg \in DelayConfigs,
          hint \in RetryAfterHints :
        \E f \in JitterDraws(cfg) :
            /\ policy_call' = [NoPolicyCall EXCEPT
                                  !.fn = "calculate_delay", !.attempt = a,
                                  !.config = cfg, !.retry_after = hint,
                                  !.jitter_factor = f]
            /\ policy_result' = [NoPolicyResult EXCEPT
                                    !.delay = calculate_delay(a, cfg, hint, f)]
    /\ UNCHANGED errVars
    /\ UNCHANGED <<reqVars, waitVars, pageVars, otherVars>>

NextPolicy ==
    \/ CallShouldRetry
    \/ CallCalculateDelay

InitSpecPolicy ==
    /\ RequestIdle
    /\ WaitIdle
    /\ FnIdle

SpecPolicy == InitSpecPolicy /\ [][NextPolicy]_vars

----------------------------------------------------------------------------
(* _exceptions.py: calls of raise_for_status *)

\* An optional string field of a JSON object: absent, the empty string, or
\* a non-empty string.
FieldValues(text) == {{}, {""}, {text}}

\* The "error" member of a JSON object body: absent, a string, or an object
\* with an optional "message".
ErrorMembers ==
    {[kind |-> "absent", message |-> {}], [kind |-> "string", message |-> {}]}
        \cup [kind : {"dict"}, message : FieldValues("E")]

\* What a response carries as content: nothing, text that is not JSON, a
\* JSON array, or a JSON object with the members raise_for_status reads.
NoMembers == [error |-> [kind |-> "absent", message |-> {}],
              message |-> {}, detail |-> {}, retryAfter |-> {}]

\* The "retryAfter" member of a JSON object body: absent, a number of
\* seconds, or something float() rejects.
RetryAfterMembers == {{}, {"0.01"}, {"soon"}}

ResponseContents ==
    {[kind |-> k, members |-> NoMembers] : k \in {"empty", "text", "list"}}
        \cup [kind : {"dict"},
              members : [error : ErrorMembers, message : FieldValues("M"),
                         detail : FieldValues("D"),
                         retryAfter : RetryAfterMembers]]

\* The JSON text of a string member, and of the members of an object.
Member(name, opt) ==
    IF opt = {} THEN "" ELSE name \o "=" \o TheValue(opt) \o ";"

EncodeMembers(m) ==
    (CASE m.error.kind = "absent" -> ""
       [] m.error.kind = "string" -> "error=boom;"
       [] m.error.kind = "dict" ->
              "error={" \o Member("message", m.error.message) \o "};")
        \o Member("message", m.message) \o Member("detail", m.detail)
        \o Member("retryAfter", m.retryAfter)

\* response.text: the content as the server sent it.
ResponseText(content) ==
    CASE content.kind = "empty" -> ""
      [] content.kind = "text" -> "Service Unavailable"
      [] content.kind = "list" -> "[]"
      [] content.kind = "dict" -> "{" \o EncodeMembers(content.members) \o "}"

\* response.json(): the parsed body, {} when parsing raises ValueError.
ResponseJson(content) ==
    IF content.kind \in {"list", "dict"} THEN {content} ELSE {}

\* The headers of a response, as <<name, value>> pairs with the names as the
\* server sent them.
ResponseHeaders ==
    {{}, {<<"X-Request-ID", "req-1">>}, {<<"x-request-id", "req-2">>},
     {<<"X-Request-ID", "req-1">>, <<"Retry-After", "2">>},
     {<<"retry-after", "2">>}, {<<"Retry-After", "soon">>}}

\* httpx matches and stores header names in lower case.
LowerCase(name) ==
    CASE name = "X-Request-ID" -> "x-request-id"
      [] name = "Retry-After" -> "retry-after"
      [] OTHER -> name

\* response.headers.get(name): the value of the header, None if absent.
HeadersGet(headers, name) ==
    {h[2] : h \in {g \in headers : LowerCase(g[1]) = LowerCase(name)}}

\* dict(response.headers)
HeadersDict(headers) == {<<LowerCase(h[1]), h[2]>> : h \in headers}

ErrorStatusCodes ==
    {200, 204, 302, 400, 401, 403, 404, 409, 418, 422, 429, 500, 503, 599}

ErrorResponses ==
    [status_code : ErrorStatusCodes, headers : ResponseHeaders,
     content : ResponseContents]

\* Python's truth value of an optional string: None and "" are false.
Truthy(opt) == opt # {} /\ opt # {""}

\* Python's `a or b`.
Or(a, b) == IF Truthy(a) THEN a ELSE b

\* The message raise_for_status extracts from a JSON object body, None or ""
\* if it finds none; mutant that looks at body.message before
\* body.error.message.
ExtractedMessage_MessageFirst(m) ==
    Or(Or(m.message, IF m.error.kind = "dict" THEN m.error.message ELSE {}),
       m.detail)

ExtractedMessage(m) ==
    Or(Or(IF m.error.kind = "dict" THEN m.error.message ELSE {}, m.message),
       m.detail)

\* The message of the exception raise_for_status raises for a response.
ErrorMessage(resp) ==
    LET text == ResponseText(resp.content)
        fallback == IF text # "" THEN text
                    ELSE "HTTP " \o ToString(resp.status_code)
        body == ResponseJson(resp.content)
    IN  IF /\ body # {}
           /\ resp.content.kind = "dict"
           /\ Truthy(ExtractedMessage(resp.content.members))
        THEN TheValue(ExtractedMessage(resp.content.members))
        ELSE fallback

\* The request id raise_for_status reads from the headers; mutant that finds
\* the header only under the name "X-Request-ID" as written.
RequestId_ExactName(resp) ==
    {h[2] : h \in {g \in resp.headers : g[1] = "X-Request-ID"}}

RequestId(resp) ==
    Or(HeadersGet(resp.headers, "X-Request-ID"),
       HeadersGet(resp.headers, "x-request-id"))

\* The exception raise_for_status raises for a response, None for a success.
RaisedFor(resp) ==
    IF is_success(resp.status_code) THEN {}
    ELSE {[type |-> ExceptionClass(resp.status_code),
           message |-> ErrorMessage(resp),
           status_code |-> resp.status_code,
           request_id |-> RequestId(resp),
           body |-> ResponseJson(resp.content),
           headers |-> HeadersDict(resp.headers)]}

\* RateLimitError.retry_after of an error: the seconds to wait, in
\* milliseconds, or None.
retry_after(e) ==
    IF e.headers = {} THEN {}
    ELSE LET retry_after_value ==
                 {h[2] : h \in {g \in e.headers :
                                   LowerCase(g[1]) = "retry-after"}}
         IN  IF retry_after_value = {}
             THEN IF e.body # {} /\ TheValue(e.body).kind = "dict"
                  THEN LET body_retry == TheValue(e.body).members.retryAfter
                       IN  IF body_retry # {}
                           THEN ParseFloat(TheValue(body_retry))
                           ELSE {}
                  ELSE {}
             ELSE ParseFloat(TheValue(retry_after_value))

\* The bodies a RateLimitError is constructed with: None, a JSON array, or a
\* JSON object with at most a "retryAfter" member.
RateLimitBodies ==
    {{}} \cup {{c} : c \in {d \in ResponseContents :
                               /\ d.kind \in {"list", "dict"}
                               /\ d.members.error.kind = "absent"
                               /\ d.members.message = {}
                               /\ d.members.detail = {}}}

\* raise_for_status(response) is called once.
CallRaiseForStatus ==
    /\ rfs_response = {}
    /\ rfs_raised = {}
    /\ \E resp \in ErrorResponses :
        /\ rfs_response' = {resp}
        /\ rfs_raised' = RaisedFor(resp)
    /\ UNCHANGED retry_after_read
    /\ UNCHANGED policyVars
    /\ UNCHANGED <<reqVars, waitVars, pageVars, otherVars>>

\* RateLimitError(message, status_code=429, headers=..., body=...): the
\* caller constructs the error itself, with the header names as it writes
\* them.
NewRateLimitError ==
    /\ rfs_response = {}
    /\ rfs_raised = {}
    /\ \E headers \in ResponseHeaders, body \in RateLimitBodies :
        rfs_raised' = {[type |-> "RateLimitError",
                        message |-> "Rate limited",
                        status_code |-> 429,
                        request_id |-> {},
                        body |-> body,
                        headers |-> headers]}
    /\ UNCHANGED <<rfs_response, retry_after_read>>
    /\ UNCHANGED policyVars
    /\ UNCHANGED <<reqVars, waitVars, pageVars, otherVars>>

\* The retry_after property of the raised RateLimitError is read.
ReadRetryAfter ==
    /\ ~retry_after_read.read
    /\ \E e \in rfs_raised :
        /\ e.type = "RateLimitError"
        /\ retry_after_read' = [read |-> TRUE, value |-> retry_after(e)]
    /\ UNCHANGED <<rfs_response, rfs_raised>>
    /\ UNCHANGED policyVars
    /\ UNCHANGED <<reqVars, waitVars, pageVars, otherVars>>

NextErrors ==
    \/ CallRaiseForStatus
    \/ NewRateLimitError
    \/ ReadRetryAfter

InitSpecErrors ==
    /\ RequestIdle
    /\ WaitIdle
    /\ FnIdle

SpecErrors == InitSpecErrors /\ [][NextErrors]_vars

InitSpecPages ==
    /\ RequestIdle
    /\ WaitIdle
    /\ PolicyIdle
    /\ ErrorsIdle
    /\ OtherIdle
    /\ InitPages

SpecPages == InitSpecPages /\ [][NextPages]_vars

InitSpecStatusWait ==
    /\ RequestIdle
    /\ WaitIdle
    /\ FnIdle

SpecStatusWait == InitSpecStatusWait /\ [][NextStatusWait]_vars

InitSpecClient ==
    /\ RequestIdle
    /\ WaitIdle
    /\ FnIdle

SpecClient == InitSpecClient /\ [][NextClient]_vars

\* The wait() calls made in both modes: on a status that is terminal or
\* not, with and without the re-fetch capability and the callback, with a
\* timeout that lets the call poll not at all, once or twice.
ModeWaitArgs ==
    {a \in WaitArgs :
        /\ a.status.id = "j1"
        /\ a.status.status \in {"PROCESSING", "SUCCESS"}
        /\ a.poll_interval = 1
        /\ a.timeout <= 2}

\* Both calls are made with the same config, or with the same arguments on
\* the same status.
InitModes ==
    /\ mode_case \in {"request", "wait"}
    /\ served = <<>>
    /\ async_request = AsyncRequestIdle
    /\ IF mode_case = "request"
       THEN /\ InitRequest
            /\ WaitIdle
            /\ on_status_kind = "sync"
            /\ async_wait = AsyncWaitIdle
       ELSE /\ InitWait
            /\ wait_args \in ModeWaitArgs
            /\ RequestIdle
            /\ on_status_kind \in CallbackKinds
            /\ async_wait = [AsyncWaitIdle EXCEPT
                                !.pc = "start",
                                !.current_status = wait_args.status]

InitSpecModes ==
    /\ InitModes
    /\ PolicyIdle
    /\ ErrorsIdle
    /\ PagesIdle
    /\ CallIdle
    /\ ClientIdle

SpecModes == InitSpecModes /\ [][NextModes]_vars

----------------------------------------------------------------------------
(* The specifications of request() and wait_for_completion() *)

SpecRequest == InitSpecRequest /\ [][NextRequest]_vars

SpecWait == InitSpecWait /\ [][NextWait]_vars

\* wait_for_completion runs on its caller's thread, which keeps running:
\* every step of the call that can be taken is eventually taken.
SpecWaitFair == SpecWait /\ WF_vars(NextWait)

----------------------------------------------------------------------------
(* Properties of request() *)

\* Whether an entry of the outcomes history is a success response.
SuccessTag(tag) == tag >= 200 /\ tag < 300

\* Whether an entry of the outcomes history is a failure the policy retries
\* while budget remains: a timeout, a connection error, or a status of the
\* config's retryable set.
RetryableTag(tag) ==
    tag \in {-1, -2} \/ tag \in config.retryable_status_codes

AllRetryable ==
    \A i \in 1..Len(outcomes) : RetryableTag(outcomes[i])

RequestDone == req_pc \in {"returned", "raised"}

LastOutcome == outcomes[Len(outcomes)]

\* C1: one request() call issues at most max_retries+1 network attempts; it
\* has issued exactly max_retries+1 when it ends after every attempt failed
\* retryably; with max_retries = 0 it issues exactly one attempt and never
\* sleeps.
C1_AttemptBudget ==
    /\ attempts <= config.max_retries + 1
    /\ (RequestDone /\ AllRetryable) => attempts = config.max_retries + 1
    /\ config.max_retries = 0 =>
          /\ num_sleeps = 0
          /\ RequestDone => attempts = 1

C1_Witness ==
    /\ req_pc = "raised"
    /\ config.max_retries = MaxRetries
    /\ AllRetryable
    /\ attempts = MaxRetries + 1
    /\ outcomes[1] = -1

\* C2: once an attempt of request() has received a success response the call
\* has returned that response: the success is the last outcome of the call,
\* nothing is in flight, one sleep was made per earlier (absorbed) failure and
\* none after the success, and no error is reported; 500, 500, 200 with
\* max_retries = 2 is 3 attempts and the 200 response.
C2_SuccessReturnsAtOnce ==
    /\ \A i \in 1..Len(outcomes) :
          SuccessTag(outcomes[i]) =>
             /\ i = Len(outcomes)
             /\ req_pc = "returned"
             /\ in_flight = 0
             /\ attempts = i
             /\ num_sleeps = i - 1
             /\ req_result.outcome = "returned"
             /\ req_result.response = response
             /\ response # {}
             /\ TheValue(response).status_code = outcomes[i]
             /\ req_result.error = NoException
    /\ req_pc = "returned" =>
          /\ Len(outcomes) >= 1
          /\ SuccessTag(LastOutcome)
    /\ (outcomes = <<500, 500, 200>> /\ config.max_retries = 2) =>
          /\ attempts = 3
          /\ req_result.outcome = "returned"
          /\ TheValue(req_result.response).status_code = 200

C2_Witness ==
    /\ outcomes = <<500, 500, 200>>
    /\ config.max_retries = 2
    /\ req_pc = "returned"

\* A non-success status that the config does not retry.
NonRetryableStatus(tag) ==
    tag >= 0 /\ ~SuccessTag(tag) /\ tag \notin config.retryable_status_codes

\* C3: when an attempt receives a non-success status outside
\* retryable_status_codes, request() raises the mapped error on that attempt:
\* no sleep is made for it and no later attempt is issued (one network call
\* in all when it is the first attempt).
C3_NonRetryableRaisesAtOnce ==
    (Len(outcomes) >= 1 /\ NonRetryableStatus(LastOutcome)) =>
        /\ req_pc = "raised"
        /\ req_result.outcome = "raised"
        /\ req_result.error.type = ExceptionClass(LastOutcome)
        /\ req_result.error.status_code = LastOutcome
        /\ LastOutcome = 400 => req_result.error.type = "BadRequestError"
        /\ in_flight = 0
        /\ attempts = Len(outcomes)
        /\ num_sleeps = Len(outcomes) - 1
        /\ Len(outcomes) = 1 => (attempts = 1 /\ num_sleeps = 0)

C3_Witness ==
    /\ outcomes = <<400>>
    /\ config.max_retries = MaxRetries
    /\ 400 \notin config.retryable_status_codes
    /\ req_pc = "raised"
    /\ req_result.error.type = "BadRequestError"

\* C4: when all max_retries+1 attempts of a call have failed retryably the
\* call has raised the error of the last attempt's failure:
\* InternalServerError for a 5xx, RateLimitError for 429, APITimeoutError for
\* a timeout, APIConnectionError for a connection error.
C4_ExhaustedRaisesLastFailure ==
    (Len(outcomes) = config.max_retries + 1 /\ AllRetryable) =>
        /\ req_pc = "raised"
        /\ req_result.outcome = "raised"
        /\ req_result.response = {}
        /\ LastOutcome >= 500 =>
              /\ req_result.error.type = "InternalServerError"
              /\ req_result.error.status_code = LastOutcome
        /\ LastOutcome = 429 => req_result.error.type = "RateLimitError"
        /\ LastOutcome = -1 => req_result.error.type = "APITimeoutError"
        /\ LastOutcome = -2 => req_result.error.type = "APIConnectionError"

C4_Witness ==
    /\ config.max_retries = 2
    /\ outcomes = <<500, -1, 429>>
    /\ req_pc = "raised"
    /\ req_result.error.type = "RateLimitError"

----------------------------------------------------------------------------
(* Properties of wait_for_completion() *)

WaitDone == w_pc \in {"returned", "raised"}

Terminal(st) == st.status \in {"SUCCESS", "ERROR"}

\* Nothing of the polling loop has happened: no sleep, no re-fetch, no
\* callback, no time spent.
NothingPolled ==
    /\ w_sleeps = 0
    /\ refetches = 0
    /\ fetched = <<>>
    /\ callbacks = <<>>
    /\ now = 0

\* C5: wait() on a status that is already SUCCESS or ERROR and carries a
\* re-fetch capability returns that same status object at once: no sleep, no
\* re-fetch, and on_status is never invoked.
C5_TerminalInitialReturnsAtOnce ==
    (w_pc # "idle" /\ Terminal(wait_args.status) /\ wait_args.has_resource) =>
        /\ NothingPolled
        /\ w_pc \in {"start", "loop", "returned"}
        /\ w_pc = "returned" => w_result = WaitReturned(wait_args.status)

C5_Witness ==
    /\ w_pc = "returned"
    /\ wait_args.status.status = "ERROR"
    /\ wait_args.has_resource
    /\ wait_args.has_on_status
    /\ wait_args.timeout = 0
    /\ w_result.status = {wait_args.status}

\* C6: on a non-terminal initial status with on_status given, on_status is
\* invoked once after each re-fetch that returned, with the status that
\* re-fetch returned, in re-fetch order and never with the initial status
\* object; the number of invocations equals the number of re-fetch calls that
\* returned.
C6_CallbackPerRefetch ==
    (w_pc # "idle" /\ wait_args.has_on_status
        /\ ~Terminal(wait_args.status)) =>
        /\ IF w_pc = "callback"
           THEN fetched = Append(callbacks, current_status)
           ELSE callbacks = fetched
        /\ \A i \in 1..Len(callbacks) :
              /\ callbacks[i].seq = i
              /\ callbacks[i] # wait_args.status
        /\ w_result.error \notin TransportErrors => Len(fetched) = refetches
        /\ w_result.error \in TransportErrors => Len(fetched) = refetches - 1
        /\ w_pc = "returned" => Len(callbacks) = refetches

C6_Witness ==
    /\ w_pc = "returned"
    /\ wait_args.has_on_status
    /\ wait_args.status.status = "ENQUEUED"
    /\ Len(callbacks) = 2
    /\ callbacks[1].status = "PROCESSING"
    /\ callbacks[2].status = "SUCCESS"
    /\ refetches = 2

\* The statuses wait() has observed, in order: the initial one, then those
\* the re-fetches returned.
Observed == <<wait_args.status>> \o fetched

\* C7: wait() returns only a terminal status, the first one it observes:
\* when the k-th re-fetch is the first to return a terminal status, wait()
\* returns it having made exactly k re-fetch calls and k sleeps, and once the
\* loop has seen a terminal status its only step is to return it.
C7_ReturnsFirstTerminal ==
    /\ [](w_pc = "returned" =>
            /\ w_result.outcome = "returned"
            /\ w_result.status = {current_status}
            /\ Terminal(current_status)
            /\ current_status = Observed[Len(Observed)]
            /\ \A i \in 1..(Len(Observed) - 1) : ~Terminal(Observed[i])
            /\ refetches = current_status.seq
            /\ refetches = Len(fetched)
            /\ w_sleeps = refetches
            /\ Len(callbacks) = (IF wait_args.has_on_status THEN refetches
                                 ELSE 0))
    /\ [][(w_pc \in {"loop", "returned"} /\ Terminal(current_status)) =>
            /\ w_pc' = "returned"
            /\ w_result' = WaitReturned(current_status)
            /\ UNCHANGED <<current_status, now, refetches, w_sleeps, fetched,
                           callbacks>>]_vars

C7_Witness ==
    /\ w_pc = "returned"
    /\ w_result.status = {current_status}
    /\ current_status.status = "ERROR"
    /\ current_status.seq = 3
    /\ refetches = 3
    /\ Len(callbacks) = 3

\* C8: at its timeout check (where the current status is never terminal),
\* wait() raises APITimeoutError when the time elapsed since the call began
\* is >= timeout, with a message holding the job's id and the timeout value,
\* and it does not raise when elapsed < timeout; so the error is never raised
\* while elapsed < timeout.
C8_TimeoutCheck ==
    /\ [](w_pc = "timeout_check" => ~Terminal(current_status))
    /\ [][w_pc = "timeout_check" =>
            IF now - start_time >= wait_args.timeout
            THEN /\ w_pc' = "raised"
                 /\ w_result'.outcome = "raised"
                 /\ w_result'.error = "APITimeoutError"
                 /\ w_result'.message.id = {current_status.id}
                 /\ w_result'.message.timeout = {wait_args.timeout}
            ELSE /\ w_pc' # "raised"
                 /\ w_result' = w_result]_vars
    /\ [](w_result.error = "APITimeoutError" =>
            /\ now - start_time >= wait_args.timeout
            /\ ~Terminal(current_status)
            /\ w_result.message.id = {wait_args.status.id}
            /\ w_result.message.timeout = {wait_args.timeout})

C8_Witness ==
    /\ w_pc = "raised"
    /\ w_result.error = "APITimeoutError"
    /\ w_result.message.id = {"j2"}
    /\ w_result.message.timeout = {MaxTimeout}
    /\ refetches >= 2
    /\ current_status.status = "PROCESSING"

\* ceil(a / b) for b > 0.
CeilDiv(a, b) == (a + b - 1) \div b

\* C9: with poll_interval > 0 every wait() call terminates (it returns or
\* raises), after at most ceil(timeout / poll_interval) re-fetch calls, and,
\* when the re-fetches take no time, with elapsed time below
\* timeout + poll_interval throughout.
C9_WaitTerminates ==
    /\ [](wait_args.poll_interval > 0 =>
            /\ refetches <= CeilDiv(wait_args.timeout, wait_args.poll_interval)
            /\ fetch_time = 0 =>
                  now - start_time
                      < wait_args.timeout + wait_args.poll_interval)
    /\ (wait_args.poll_interval > 0) ~> WaitDone

C9_Witness ==
    /\ w_pc = "raised"
    /\ w_result.error = "APITimeoutError"
    /\ wait_args.poll_interval = 2
    /\ wait_args.timeout = 3
    /\ refetches = 2
    /\ fetch_time = 0
    /\ now - start_time = 4

\* C10: wait() on a non-terminal status with no re-fetch capability fails at
\* once with ValueError: before any sleep, re-fetch or callback, and not with
\* a timeout or transport error.
C10_NoResourceIsValueError ==
    (w_pc # "idle" /\ ~Terminal(wait_args.status)
        /\ ~wait_args.has_resource) =>
        /\ NothingPolled
        /\ w_pc \in {"start", "raised"}
        /\ w_pc = "raised" => w_result = WaitRaised("ValueError", NoMessage)

C10_Witness ==
    /\ w_pc = "raised"
    /\ w_result.error = "ValueError"
    /\ ~Terminal(wait_args.status)
    /\ ~wait_args.has_resource
    /\ wait_args.timeout = 0
    /\ wait_args.has_on_status

\* C11: when a re-fetch made during wait() raises a transport error, wait()
\* ends with exactly that error (not the poller's APITimeoutError, no message
\* of its own), on_status is not invoked for the failed poll, and no further
\* re-fetch, sleep or callback is made.
C11_RefetchErrorPropagates ==
    /\ [][(w_pc = "fetch" /\ w_pc' # "callback") =>
            /\ w_pc' = "raised"
            /\ w_result'.outcome = "raised"
            /\ w_result'.error \in TransportErrors
            /\ w_result'.message = NoMessage
            /\ callbacks' = callbacks
            /\ fetched' = fetched]_vars
    /\ [](w_result.error \in TransportErrors =>
            /\ w_pc = "raised"
            /\ refetches = Len(fetched) + 1
            /\ w_sleeps = refetches
            /\ Len(callbacks) = (IF wait_args.has_on_status
                                 THEN refetches - 1 ELSE 0))
    /\ [][w_result.error \in TransportErrors => UNCHANGED waitVars]_vars

C11_Witness ==
    /\ w_pc = "raised"
    /\ w_result.error = "NotFoundError"
    /\ wait_args.has_on_status
    /\ refetches = 2
    /\ Len(callbacks) = 1
    /\ now - start_time >= wait_args.timeout

----------------------------------------------------------------------------
(* Properties of should_retry and calculate_delay *)

ShouldRetryCalled == policy_call.fn = "should_retry"

CalculateDelayCalled == policy_call.fn = "calculate_delay"

\* The exception of the call is a connection-level failure.
ConnectionLevel ==
    policy_call.exception.type \in {"APIConnectionError", "APITimeoutError"}

BudgetLeft == policy_call.attempt < policy_call.config.max_retries

\* C12: should_retry is false whenever attempt >= config.max_retries,
\* whatever the config and the failure (a status, a connection error with
\* either flag, a timeout, or none).
C12_NoRetryWithoutBudget ==
    (ShouldRetryCalled /\ ~BudgetLeft) => policy_result.retry = FALSE

C12_Witness ==
    /\ ShouldRetryCalled
    /\ policy_call.attempt = 2
    /\ policy_call.config.max_retries = 2
    /\ policy_call.exception = APIConnectionError(TRUE)
    /\ policy_call.status_code = {500}
    /\ 500 \in policy_call.config.retryable_status_codes
    /\ policy_result.retry = FALSE

\* C13: with budget left and a connection-level failure, should_retry
\* returns the failure's own should_retry flag, whatever status code comes
\* with it: a connection error flagged False is not retried, a timeout is.
C13_ConnectionErrorFlagDecides ==
    (ShouldRetryCalled /\ BudgetLeft /\ ConnectionLevel) =>
        /\ policy_result.retry = policy_call.exception.should_retry
        /\ policy_call.exception = APIConnectionError(FALSE) =>
              policy_result.retry = FALSE
        /\ policy_call.exception.type = "APITimeoutError" =>
              policy_result.retry = TRUE

C13_Witness ==
    /\ ShouldRetryCalled
    /\ policy_call.attempt = 0
    /\ policy_call.config.max_retries = MaxRetries
    /\ policy_call.exception = APIConnectionError(FALSE)
    /\ policy_call.status_code = {500}
    /\ 500 \in policy_call.config.retryable_status_codes
    /\ policy_result.retry = FALSE

\* C14: with budget left and no connection-level failure, should_retry is
\* true exactly when a status code is given and is a member of
\* config.retryable_status_codes (by default {429, 500, 502, 503, 504}); with
\* no status code it is false.
C14_RetryableStatusDecides ==
    /\ RETRYABLE_STATUS_CODES = {429, 500, 502, 503, 504}
    /\ (ShouldRetryCalled /\ BudgetLeft /\ ~ConnectionLevel) =>
          /\ policy_result.retry =
                (\E c \in policy_call.status_code :
                    c \in policy_call.config.retryable_status_codes)
          /\ policy_call.status_code = {} => policy_result.retry = FALSE

C14_Witness ==
    /\ ShouldRetryCalled
    /\ BudgetLeft
    /\ policy_call.exception = NoException
    /\ policy_call.status_code = {404}
    /\ policy_call.config.retryable_status_codes = RETRYABLE_STATUS_CODES
    /\ policy_result.retry = FALSE

\* min(initial_delay * exponential_base^n, max_delay)
CappedExponential(cfg, n) ==
    Min(cfg.initial_delay * Pow(cfg.exponential_base, n), cfg.max_delay)

NoJitter ==
    /\ policy_call.config.jitter_min = 0
    /\ policy_call.config.jitter_max = 0

\* C15: with jitter disabled and no server hint, calculate_delay(n, config)
\* is min(initial_delay * exponential_base^n, max_delay): 0.5, 1.0, 2.0, 4.0
\* for n = 0..3 with initial_delay 0.5 and base 2, and 2.0 at n = 3 when
\* max_delay is 2.0.
C15_ExponentialBackoffCapped ==
    (CalculateDelayCalled /\ NoJitter /\ policy_call.retry_after = {}) =>
        LET cfg == policy_call.config
            n == policy_call.attempt
        IN  /\ policy_result.delay = CappedExponential(cfg, n)
            /\ policy_result.delay <= cfg.max_delay
            /\ (cfg.initial_delay = 500 /\ cfg.exponential_base = 2
                  /\ cfg.max_delay = 8000 /\ n <= 3) =>
                  policy_result.delay = <<500, 1000, 2000, 4000>>[n + 1]
            /\ (cfg.initial_delay = 500 /\ cfg.exponential_base = 2
                  /\ cfg.max_delay = 2000 /\ n = 3) =>
                  policy_result.delay = 2000

C15_Witness ==
    /\ CalculateDelayCalled
    /\ NoJitter
    /\ policy_call.retry_after = {}
    /\ policy_call.config.initial_delay = 500
    /\ policy_call.config.exponential_base = 2
    /\ policy_call.config.max_delay = 2000
    /\ policy_call.attempt = 3
    /\ policy_result.delay = 2000

\* C16: without a server hint, calculate_delay returns base + base * f for
\* the jitter factor f drawn from [jitter_min, jitter_max], base being the
\* capped exponential delay: the delay lies in [base, base * (1 + jitter_max)]
\* (1.25 and 1.5 for base 1.0 with f = 0.25 and 0.5).
C16_JitterAddsToBase ==
    (CalculateDelayCalled /\ policy_call.retry_after = {}) =>
        LET cfg == policy_call.config
            f == policy_call.jitter_factor
            base == CappedExponential(cfg, policy_call.attempt)
        IN  /\ cfg.jitter_min <= f /\ f <= cfg.jitter_max
            /\ 100 * policy_result.delay = 100 * base + base * f
            /\ base <= policy_result.delay
            /\ 100 * policy_result.delay <= base * (100 + cfg.jitter_max)
            /\ (base = 1000 /\ f = 25) => policy_result.delay = 1250
            /\ (base = 1000 /\ f = 50) => policy_result.delay = 1500

C16_Witness ==
    /\ CalculateDelayCalled
    /\ policy_call.retry_after = {}
    /\ policy_call.config.initial_delay = 1000
    /\ policy_call.attempt = 0
    /\ policy_call.jitter_factor = 25
    /\ policy_result.delay = 1250

\* The delay calculate_delay computes locally for the call, before it looks
\* at the server hint.
LocalDelay ==
    LET base == CappedExponential(policy_call.config, policy_call.attempt)
    IN  base + (base * policy_call.jitter_factor) \div 100

\* C17: with a server hint h, calculate_delay returns max(local delay, h): a
\* larger hint replaces the local delay, a smaller or equal one never
\* shortens it.
C17_HintIsALowerBound ==
    (CalculateDelayCalled /\ policy_call.retry_after # {}) =>
        \A h \in policy_call.retry_after :
            /\ policy_result.delay = Max(LocalDelay, h)
            /\ h > LocalDelay => policy_result.delay = h
            /\ h <= LocalDelay => policy_result.delay = LocalDelay

C17_Witness ==
    /\ CalculateDelayCalled
    /\ policy_call.retry_after = {100}
    /\ policy_call.config.initial_delay = 500
    /\ policy_call.attempt = 0
    /\ NoJitter
    /\ policy_result.delay = 500

\* C18: without a server hint the delay calculate_delay returns never exceeds
\* config.max_delay, whatever the attempt index and the jitter drawn.
C18_DelayWithinMaxDelay ==
    (CalculateDelayCalled /\ policy_call.retry_after = {}) =>
        policy_result.delay <= policy_call.config.max_delay

----------------------------------------------------------------------------
(* Properties of raise_for_status *)

RaiseForStatusCalled == rfs_response # {}

\* The kind of error the status-to-kind table of the documentation gives for
\* a 4xx or 5xx status code.
DocumentedKind(status_code) ==
    CASE status_code = 400 -> "BadRequestError"
      [] status_code = 401 -> "AuthenticationError"
      [] status_code = 403 -> "PermissionDeniedError"
      [] status_code = 404 -> "NotFoundError"
      [] status_code = 409 -> "ConflictError"
      [] status_code = 422 -> "UnprocessableEntityError"
      [] status_code = 429 -> "RateLimitError"
      [] status_code >= 500 /\ status_code <= 599 -> "InternalServerError"
      [] OTHER -> "APIError"

\* C19: raise_for_status raises for every non-success response, and the kind
\* of the error is decided by the status code alone: 400 BadRequest, 401
\* Authentication, 403 PermissionDenied, 404 NotFound, 409 Conflict, 422
\* UnprocessableEntity, 429 RateLimit, every other 5xx InternalServer, every
\* other 4xx (418) exactly the generic APIError, whatever the headers and
\* the body.
C19_StatusCodeDecidesKind ==
    \A r \in rfs_response :
        ~(r.status_code >= 200 /\ r.status_code <= 299) =>
            /\ rfs_raised # {}
            /\ \A e \in rfs_raised :
                (r.status_code >= 400 /\ r.status_code <= 599) =>
                    e.type = DocumentedKind(r.status_code)

C19_Witness ==
    /\ RaiseForStatusCalled
    /\ \E r \in rfs_response : r.status_code = 500 /\ r.content.kind = "dict"
    /\ \E e \in rfs_raised : e.type = "InternalServerError"

\* The message the priority order body.error.message, body.message,
\* body.detail, response text, "HTTP <code>" gives for a response, Has(_)
\* telling which optional fields count.
MessageByPriority(r, Has(_)) ==
    LET m == r.content.members
        error_message == IF m.error.kind = "dict" THEN m.error.message ELSE {}
        text == ResponseText(r.content)
    IN  IF Has(error_message) THEN TheValue(error_message)
        ELSE IF Has(m.message) THEN TheValue(m.message)
        ELSE IF Has(m.detail) THEN TheValue(m.detail)
        ELSE IF text # "" THEN text
        ELSE "HTTP " \o ToString(r.status_code)

\* A field is present: the body is a JSON object that has it.
Present(opt) == opt # {}

\* A field is present and its value is not the empty string.
PresentNonEmpty(opt) == opt # {} /\ opt # {""}

\* C20 (amended): the message of the error raise_for_status raises is
\* body.error.message if present and non-empty, else body.message if present
\* and non-empty, else body.detail if present and non-empty, else the raw
\* response text, else "HTTP <code>".
C20_FirstNonEmptyFieldIsMessage ==
    \A r \in rfs_response : \A e \in rfs_raised :
        e.message = MessageByPriority(r, PresentNonEmpty)

C20_Witness ==
    /\ RaiseForStatusCalled
    /\ \E r \in rfs_response :
        /\ r.content.kind = "dict"
        /\ r.content.members.error = [kind |-> "dict", message |-> {""}]
        /\ r.content.members.message = {"M"}
        /\ r.content.members.detail = {"D"}
    /\ \E e \in rfs_raised : e.message = "M"

\* C20 (as stated): the message is the first field that is present, in the
\* order body.error.message, body.message, body.detail, else the raw
\* response text, else "HTTP <code>".
C20_FirstPresentFieldIsMessage ==
    \A r \in rfs_response : \A e \in rfs_raised :
        e.message = MessageByPriority(r, Present)

\* The body a taxonomy error carries, as a Python value.
CarriedBody(e) ==
    IF e.body = {} THEN [type |-> "NoneType"]
    ELSE [type |-> "json", value |-> TheValue(e.body)]

\* The error carries the status code of the response, the value of its
\* X-Request-ID header whatever the case of the name (None without one), and
\* every header of the response under its lower-case name.
CarriesStatusIdAndHeaders(r, e) ==
    /\ e.status_code = r.status_code
    /\ e.request_id =
           {h[2] : h \in {g \in r.headers :
                             g[1] \in {"X-Request-ID", "x-request-id"}}}
    /\ \A h \in r.headers :
           \E g \in e.headers : LowerCase(g[1]) = LowerCase(h[1]) /\ g[2] = h[2]
    /\ \A g \in e.headers :
           \E h \in r.headers : LowerCase(g[1]) = LowerCase(h[1]) /\ g[2] = h[2]

\* C21 (amended): the error raised for a non-success response carries the
\* response's status code, the request id of its X-Request-ID header, all
\* its headers, and as body the parsed JSON body when the content parses as
\* JSON and None otherwise (the raw text is only the fallback message).
C21_CarriesContextBodyNoneIfNotJson ==
    \A r \in rfs_response : \A e \in rfs_raised :
        /\ CarriesStatusIdAndHeaders(r, e)
        /\ CarriedBody(e) =
               IF r.content.kind \in {"list", "dict"}
               THEN [type |-> "json", value |-> r.content]
               ELSE [type |-> "NoneType"]

C21_Witness ==
    /\ RaiseForStatusCalled
    /\ \E r \in rfs_response :
        /\ r.status_code = 500
        /\ r.content.kind = "text"
        /\ r.headers = {<<"x-request-id", "req-2">>}
    /\ \E e \in rfs_raised :
        /\ e.body = {}
        /\ e.request_id = {"req-2"}
        /\ e.message = "Service Unavailable"

\* C21 (as stated): as above, but the body is the raw response text when the
\* content does not parse as JSON.
C21_CarriesContextBodyTextIfNotJson ==
    \A r \in rfs_response : \A e \in rfs_raised :
        /\ CarriesStatusIdAndHeaders(r, e)
        /\ CarriedBody(e) =
               IF r.content.kind \in {"list", "dict"}
               THEN [type |-> "json", value |-> r.content]
               ELSE [type |-> "str", text |-> ResponseText(r.content)]

----------------------------------------------------------------------------
(* Properties of RateLimitError *)

\* C22: RateLimitError.retry_after is the numeric value of the Retry-After
\* header, matched whatever its case, when the header is present; without
\* the header it is the numeric value of the body field retryAfter if the
\* body is a JSON object that has it; it is None when neither is present or
\* the value is malformed.
C22_RetryAfterFromHeaderElseBody ==
    retry_after_read.read =>
        \A e \in rfs_raised :
            LET header == {h[2] : h \in {g \in e.headers :
                               g[1] \in {"Retry-After", "retry-after"}}}
                field == IF e.body # {} /\ TheValue(e.body).kind = "dict"
                         THEN TheValue(e.body).members.retryAfter
                         ELSE {}
            IN  retry_after_read.value =
                    IF header # {} THEN ParseFloat(TheValue(header))
                    ELSE IF field # {} THEN ParseFloat(TheValue(field))
                    ELSE {}

----------------------------------------------------------------------------
(* Properties of Page *)

\* C23: for every page, has_next_page() is true if and only if
\* page * limit < total (total 20, page 2, limit 10 gives false; total 21
\* gives true).
C23_HasNextIffMoreItems ==
    hn_call.called =>
        LET pg == hn_call.page
        IN  /\ hn_call.result <=> (pg.page * pg.limit < pg.total)
            /\ (pg.total = 20 /\ pg.page = 2 /\ pg.limit = 10) => ~hn_call.result
            /\ (pg.total = 21 /\ pg.page = 2 /\ pg.limit = 10) => hn_call.result

C23_Witness ==
    /\ hn_call.called
    /\ hn_call.page.total = 20
    /\ hn_call.page.page = 2
    /\ hn_call.page.limit = 10
    /\ ~hn_call.result

\* What a direct call of next_page() on the start page must give.
NextPageOutcome ==
    np_call.called =>
        IF start_page.page * start_page.limit < start_page.total
        THEN /\ np_call.raised = "None"
             /\ np_call.requested = <<start_page.page + 1>>
             /\ np_call.returned =
                    {fetch_page(capability, start_page, start_page.page + 1)}
        ELSE /\ np_call.raised = "StopIteration"
             /\ np_call.message = "No more pages"
             /\ np_call.requested = <<>>
             /\ np_call.returned = {}

\* C24: next_page() invokes the fetch capability if and only if
\* has_next_page() is true: without a next page it raises "No more pages"
\* and fetches nothing; otherwise it fetches exactly once, page + 1, and
\* returns the page fetched; the page it is called on stays as it was.
C24_NextPageFetchesIffHasNext ==
    /\ []NextPageOutcome
    /\ [][np_call'.called => start_page' = start_page]_vars

C24_Witness ==
    /\ np_call.called
    /\ np_call.raised = "StopIteration"
    /\ np_call.requested = <<>>
    /\ start_page.total = 4
    /\ start_page.page = 2
    /\ start_page.limit = 2

\* The pages traversal i has obtained so far: those it yielded and the one
\* it fetched and has not yielded yet.
ObtainedPages(i) ==
    IF trav[i].mode # "none" /\ trav[i].need_yield /\ trav[i].requested # <<>>
    THEN Append(trav[i].pages, trav[Frame(i)].page)
    ELSE trav[i].pages

\* Every page traversal i fetched reports the page number asked for and the
\* total and limit of the page it was fetched from.
FetchedPagesConsistent(i) ==
    LET ps == ObtainedPages(i)
    IN  \A k \in 1..(Len(ps) - 1) :
            /\ ps[k + 1].page = ps[k].page + 1
            /\ ps[k + 1].total = ps[k].total
            /\ ps[k + 1].limit = ps[k].limit

\* max(1, ceil(total / limit) - p + 1) for the start page.
PagesFromStart ==
    Max(1, CeilDiv(start_page.total, start_page.limit) - start_page.page + 1)

\* C25: provided every fetched page reports the requested page number and
\* the total and limit of the page it was fetched from, iter_pages() yields
\* the current page, then pages p+1, p+2, ... in order, and ends at the first
\* page without a next page: max(1, ceil(total/limit) - p + 1) pages, and
\* one fetch less.
C25_PagesInOrderUntilLast ==
    \A i \in Traversals :
        (trav[i].mode = "pages" /\ FetchedPagesConsistent(i)) =>
            LET ps == trav[i].pages
            IN  /\ Len(ps) <= PagesFromStart
                /\ Len(trav[i].requested) <= PagesFromStart - 1
                /\ Len(ps) >= 1 => ps[1] = start_page
                /\ \A k \in 1..Len(ps) : ps[k].page = start_page.page + k - 1
                /\ \A k \in 1..(Len(ps) - 1) :
                       ps[k].page * ps[k].limit < ps[k].total
                /\ Len(ps) = PagesFromStart =>
                       ~(ps[Len(ps)].page * ps[Len(ps)].limit < ps[Len(ps)].total)
                /\ trav[i].pc = "done" => Len(ps) = PagesFromStart

C25_Witness ==
    /\ start_page = ServerPage(5, 2, 1)
    /\ capability = "consistent"
    /\ trav[1].mode = "pages"
    /\ trav[1].pc = "done"
    /\ Len(trav[1].pages) = 3
    /\ trav[1].requested = <<2, 3>>

\* The concatenation of the data of a sequence of pages.
RECURSIVE Flatten(_)
Flatten(ps) ==
    IF ps = <<>> THEN <<>>
    ELSE Flatten(SubSeq(ps, 1, Len(ps) - 1)) \o ps[Len(ps)].data

\* C26: auto_paging_iter() yields exactly the concatenation, in order, of
\* the data of the pages iter_pages() produces: while it runs, the items of
\* the pages before the current one and the first idx items of the current
\* one; at its end, every item of every page once (pages of 2, 2 and 1 items
\* give the 5 items in order).
C26_ItemsAreConcatenatedPages ==
    \A i \in Traversals :
        trav[i].mode = "items" =>
            LET ps == trav[i].pages
            IN  /\ ps = <<>> => trav[i].items = <<>>
                /\ ps # <<>> =>
                       trav[i].items =
                           Flatten(SubSeq(ps, 1, Len(ps) - 1))
                               \o SubSeq(ps[Len(ps)].data, 1, trav[i].idx)
                /\ trav[i].pc = "done" =>
                       /\ trav[i].items = Flatten(ps)
                       /\ \A j \in Traversals :
                              (trav[j].mode = "pages" /\ trav[j].pc = "done") =>
                                  trav[i].items = Flatten(trav[j].pages)
                       /\ (start_page = ServerPage(5, 2, 1)
                              /\ capability = "consistent") =>
                                  trav[i].items = <<1, 2, 3, 4, 5>>

C26_Witness ==
    /\ start_page = ServerPage(5, 2, 1)
    /\ capability = "consistent"
    /\ trav[1].mode = "items"
    /\ trav[1].pc = "done"
    /\ trav[1].items = <<1, 2, 3, 4, 5>>
    /\ trav[2].mode = "pages"
    /\ trav[2].pc = "done"
    /\ Len(trav[2].pages) = 3

\* The number of elements traversal i has yielded to its consumer.
Yielded(i) ==
    IF trav[i].mode = "pages" THEN Len(trav[i].pages) ELSE Len(trav[i].items)

\* Whenever the consumer of traversal i holds control after asking, the
\* fetches made are the pages entered minus one; before it asks, none.
FetchesArePagesEnteredMinusOne ==
    \A i \in Traversals :
        (trav[i].mode # "none" /\ trav[i].pc # "running") =>
            IF trav[i].asked = 0
            THEN trav[i].requested = <<>> /\ trav[i].pages = <<>>
            ELSE Len(trav[i].requested) = Len(trav[i].pages) - 1

\* A step that fetches for traversal i is taken while its consumer is asking
\* for the element after the last one of the current page.
FetchOnlyOnDemand ==
    \A i \in Traversals :
        trav'[i].requested # trav[i].requested =>
            /\ trav[i].pc = "running"
            /\ trav[i].asked = Yielded(i) + 1
            /\ trav[i].pages # <<>>
            /\ trav[i].mode = "items" =>
                   trav[i].idx = Len(trav[i].pages[Len(trav[i].pages)].data)
            /\ trav'[i].requested =
                   Append(trav[i].requested,
                          trav[i].pages[Len(trav[i].pages)].page + 1)

\* C27: iter_pages() and auto_paging_iter() fetch on demand: page n+1 is
\* fetched only when the consumer asks for the element after the last one of
\* page n; the fetches made are the pages entered minus one; a consumer that
\* stops asking causes no further fetch.
C27_FetchesOnDemand ==
    /\ []FetchesArePagesEnteredMinusOne
    /\ [][FetchOnlyOnDemand]_vars

C27_Witness ==
    /\ start_page = ServerPage(5, 2, 1)
    /\ trav[1].mode = "items"
    /\ trav[1].pc = "suspended"
    /\ trav[1].items = <<1, 2>>
    /\ trav[1].requested = <<>>
    /\ trav[2].mode = "items"
    /\ trav[2].pc = "suspended"
    /\ trav[2].items = <<1, 2, 3>>
    /\ trav[2].requested = <<2>>

\* The k-th page a traversal from the start page obtains.
RECURSIVE ExpectedPage(_)
ExpectedPage(k) ==
    IF k <= 1 THEN start_page
    ELSE LET prev == ExpectedPage(k - 1)
         IN  fetch_page(capability, prev, prev.page + 1)

\* Traversal i has yielded what a traversal from the start page yields,
\* whatever the other traversal did.
TraversalFromStart(i) ==
    LET ps == trav[i].pages
    IN  /\ \A k \in 1..Len(ps) : ps[k] = ExpectedPage(k)
        /\ trav[i].mode = "pages" => trav[i].items = <<>>
        /\ (trav[i].mode = "items" /\ ps # <<>>) =>
               trav[i].items =
                   Flatten(SubSeq(ps, 1, Len(ps) - 1))
                       \o SubSeq(ExpectedPage(Len(ps)).data, 1, trav[i].idx)
        /\ trav[i].asked > Yielded(i) =>
               trav[i].pc \in {"running", "done"}
        /\ trav[i].pc = "done" =>
               /\ ps # <<>>
               /\ ~(ps[Len(ps)].page * ps[Len(ps)].limit < ps[Len(ps)].total)

\* C28: each iter_pages() or auto_paging_iter() call is an independent
\* traversal from the page it is called on: two traversals of the same page,
\* interleaved in any way, each yield the full sequence from that page, and
\* no step changes the start page.
C28_TraversalsAreIndependent ==
    /\ [](\A i \in Traversals : trav[i].mode # "none" => TraversalFromStart(i))
    /\ [][start_page' = start_page]_vars

C28_Witness ==
    /\ start_page = ServerPage(5, 2, 1)
    /\ capability = "consistent"
    /\ trav[1].mode = "pages"
    /\ trav[1].pc = "done"
    /\ Len(trav[1].pages) = 3
    /\ trav[2].mode = "pages"
    /\ trav[2].pc = "suspended"
    /\ Len(trav[2].pages) = 2

\* What the claim says of an empty start page: no next page, no items, and
\* iter_pages() yields that page and no other.
EmptyPageTraversals ==
    /\ (hn_call.called /\ hn_call.page = start_page) => ~hn_call.result
    /\ np_call.called => np_call.raised = "StopIteration"
    /\ \A i \in Traversals :
        /\ trav[i].items = <<>>
        /\ trav[i].requested = <<>>
        /\ Len(trav[i].pages) <= 1
        /\ \A k \in 1..Len(trav[i].pages) : trav[i].pages[k] = start_page
        /\ trav[i].pc = "done" => Len(trav[i].pages) = 1
        /\ trav[i].asked >= 2 => trav[i].pc # "suspended"

\* C29 (amended): a page with total = 0 and an empty data list has no next
\* page and an empty auto_paging_iter() stream, and iter_pages() called on it
\* yields exactly that one page.
C29_EmptyPageIsTheOnlyPage ==
    (start_page.total = 0 /\ start_page.data = <<>>) => EmptyPageTraversals

C29_Witness ==
    /\ start_page.total = 0
    /\ start_page.data = <<>>
    /\ trav[1].mode = "pages"
    /\ trav[1].pc = "done"
    /\ trav[1].pages = <<start_page>>
    /\ trav[2].mode = "items"
    /\ trav[2].pc = "done"
    /\ trav[2].items = <<>>

\* C29 (as stated): the same of every page with total = 0 or with an empty
\* data list.
C29_EmptyDataOrZeroTotal ==
    (start_page.total = 0 \/ start_page.data = <<>>) => EmptyPageTraversals

----------------------------------------------------------------------------
(* Properties of the connection resource *)

\* No resource exists before the first request(); the client holds at most
\* one, and every resource created is the one held or has been closed; a
\* running request() uses the resource held.
OneResourceHeld ==
    /\ calls = 0 => created = 0
    /\ Cardinality(http_client) <= 1
    /\ http_client = (1..created) \ closed
    /\ req_pc \notin {"idle", "returned", "raised"} =>
           (client # {} /\ client = http_client)

\* A request() that finds a resource held uses it and creates none; one that
\* finds none creates exactly one.
RequestReusesResource ==
    calls' = calls + 1 =>
        /\ client' = http_client'
        /\ http_client # {} => (http_client' = http_client /\ created' = created)
        /\ http_client = {} => created' = created + 1

\* close() releases the resource held and leaves none; with none held it
\* changes nothing.
CloseReleasesResource ==
    closes' = closes + 1 =>
        /\ http_client' = {}
        /\ closed' = closed \cup http_client
        /\ created' = created
        /\ http_client = {} => closed' = closed

\* C30: over every sequence of request() and close() calls on one client, no
\* connection resource exists before the first request(); at most one is
\* held at any time and the request() calls between two close() calls use
\* that one; close() releases it and leaves none held, and is a no-op with
\* none held.
C30_ResourceLifecycle ==
    /\ []OneResourceHeld
    /\ [][RequestReusesResource /\ CloseReleasesResource]_vars

C30_Witness ==
    /\ calls = 2
    /\ closes = 2
    /\ created = 2
    /\ closed = {1}
    /\ http_client = {2}
    /\ req_pc = "returned"

----------------------------------------------------------------------------
(* Properties of the retry loop of request() *)

\* At every point of a call: at most one attempt is in flight, every attempt
\* before it has had its outcome, and one sleep has been started per attempt
\* that is to be followed by another.
AttemptsAlternateWithSleeps ==
    /\ in_flight <= 1
    /\ Len(outcomes) = attempts - in_flight
    /\ req_pc = "send" => (in_flight = 0 /\ num_sleeps = attempts)
    /\ req_pc = "inflight" => (in_flight = 1 /\ num_sleeps = attempts - 1)
    /\ req_pc = "sleeping" => (in_flight = 0 /\ num_sleeps = attempts)
    /\ RequestDone => (in_flight = 0 /\ num_sleeps = attempts - 1)

\* An attempt is issued only when none is in flight and as many sleeps were
\* made as attempts before it; a sleep starts only when the outcome of the
\* attempt before it is received.
AttemptAfterOutcomeAndSleep ==
    /\ attempts' = attempts + 1 =>
           /\ in_flight = 0
           /\ Len(outcomes) = attempts
           /\ num_sleeps = attempts
           /\ attempts > 0 => req_pc = "send"
    /\ num_sleeps' = num_sleeps + 1 =>
           /\ in_flight = 1
           /\ Len(outcomes') = num_sleeps + 1
           /\ num_sleeps = attempts - 1

\* C33: within one request() call attempts are strictly sequential: attempt
\* k+1 is issued only after the outcome of attempt k and exactly one sleep;
\* there is never more than one attempt in flight; no sleep precedes the
\* first attempt and none follows the last (sleeps = attempts - 1).
C33_AttemptsAreSequential ==
    /\ []AttemptsAlternateWithSleeps
    /\ [][AttemptAfterOutcomeAndSleep]_vars

C33_Witness ==
    /\ req_pc = "returned"
    /\ outcomes = <<-2, 500, 200>>
    /\ attempts = 3
    /\ num_sleeps = 2
    /\ in_flight = 0

\* C34: for every max_retries >= 0 and every sequence of outcomes the retry
\* loop of request() ends by returning or raising inside the loop: the code
\* after the loop, and with it the safety-net error, is never reached, and
\* the iteration with attempt = max_retries never sleeps.
C34_LoopNeverFallsThrough ==
    /\ req_result.where # "after_loop"
    /\ RequestDone => req_result.where = "loop"
    /\ req_pc = "sleeping" => attempt < config.max_retries

C34_Witness ==
    /\ req_pc = "raised"
    /\ config.max_retries = 1
    /\ attempt = 1
    /\ outcomes = <<500, 500>>
    /\ req_result.where = "loop"
    /\ req_result.error.status_code = 500

----------------------------------------------------------------------------
(* Order of the checks of wait() *)

\* C35: in every iteration of wait() the completion check precedes the
\* timeout check: a re-fetched status that is terminal is returned even when
\* the elapsed time has reached the timeout, and the timeout error is raised
\* only for a status that is not terminal.
C35_CompletionBeforeTimeout ==
    /\ w_pc = "timeout_check" => ~Terminal(current_status)
    /\ (w_pc = "raised" /\ w_result.error = "APITimeoutError") =>
           ~Terminal(current_status)
    /\ (WaitDone /\ wait_args.has_resource /\ Terminal(current_status)) =>
           w_result = WaitReturned(current_status)

C35_Witness ==
    /\ w_pc = "returned"
    /\ refetches = 2
    /\ Terminal(current_status)
    /\ current_status.seq = 2
    /\ Elapsed > wait_args.timeout
    /\ wait_args.timeout > 0
    /\ w_result = WaitReturned(current_status)

\* C36: the already-terminal rule of wait() applies before the
\* missing-capability rule: wait() on a status that is already SUCCESS or
\* ERROR returns that status at once even when it carries no re-fetch
\* capability.
C36_TerminalBeforeMissingCapability ==
    (WaitDone /\ Terminal(wait_args.status) /\ ~wait_args.has_resource) =>
        /\ w_result = WaitReturned(wait_args.status)
        /\ NothingPolled

----------------------------------------------------------------------------
(* The server hint in the retry loop of request() *)

\* The delays calculate_delay can return for the current attempt without a
\* server hint, one for each jitter factor.
LocalSchedule ==
    {calculate_delay(attempt, config, {}, j) : j \in JitterDraws(config)}

\* The loop sleeps after an attempt that ended with a response.
SleepingAfterResponse ==
    /\ req_pc = "sleeping"
    /\ outcomes # <<>>
    /\ outcomes[Len(outcomes)] >= 0

\* The loop sleeps after an attempt that ended with a timeout or a
\* connection failure.
SleepingAfterException ==
    /\ req_pc = "sleeping"
    /\ outcomes # <<>>
    /\ outcomes[Len(outcomes)] < 0

\* The number of milliseconds a response's Retry-After header states, if it
\* has the header and the header parses as a number.
ParseableHint(resp) ==
    UNION {ParseFloat(text) : text \in resp.retry_after_header}

\* C38: when a retried non-success response carries a Retry-After header
\* that parses as a number, the backoff sleep before the next attempt is at
\* least that many seconds; a missing or unparseable header is ignored (the
\* local schedule is used); a retried timeout or connection failure never
\* uses a server hint.
C38_RetryAfterIsHonoured ==
    /\ SleepingAfterResponse =>
           \A resp \in response : \A d \in last_delay :
               /\ \A h \in ParseableHint(resp) :
                      /\ d >= h
                      /\ d = h \/ d \in LocalSchedule
               /\ ParseableHint(resp) = {} => d \in LocalSchedule
    /\ SleepingAfterResponse => (response # {} /\ last_delay # {})
    /\ SleepingAfterException =>
           (last_delay # {} /\ last_delay \subseteq LocalSchedule)

C38_Witness ==
    /\ SleepingAfterResponse
    /\ attempt = 0
    /\ response = {[status_code |-> 429, retry_after_header |-> {"2"}]}
    /\ last_delay = {2000}
    /\ 2000 \notin LocalSchedule

----------------------------------------------------------------------------
(* The retry budget of each request() call *)

\* The server hint of the response the loop is sleeping after, if any.
CurrentHint == UNION {ParseableHint(resp) : resp \in response}

\* The attempt index is the number of attempts this call has completed; a
\* call that ends after only retryable failures has made max_retries + 1
\* attempts; each sleep is the delay of the schedule for this call's attempt
\* index.
BudgetIsPerCall ==
    /\ req_pc = "send" => attempt = attempts
    /\ req_pc \in {"inflight", "sleeping"} => attempt = attempts - 1
    /\ (RequestDone /\ AllRetryable) => attempts = config.max_retries + 1
    /\ req_pc = "sleeping" =>
           \E j \in JitterDraws(config) :
               last_delay =
                   {calculate_delay(attempts - 1, config, CurrentHint, j)}

\* A call starts from attempt index 0 with nothing left of the call before.
CallStartsAfresh ==
    calls' = calls + 1 =>
        /\ attempt' = 0
        /\ attempts' = 0
        /\ num_sleeps' = 0
        /\ outcomes' = <<>>
        /\ last_exception' = NoException
        /\ last_delay' = {}

\* C39: every request() call has its own full retry budget: the attempt
\* index starts at 0 for each call, failures of earlier calls on the same
\* client neither reduce the attempts a later call may make nor change its
\* backoff schedule, and no request modifies the config the client holds.
C39_FreshBudgetPerCall ==
    /\ []BudgetIsPerCall
    /\ [][CallStartsAfresh]_vars
    /\ [][config' = config]_vars

C39_Witness ==
    /\ calls = 2
    /\ failed_before
    /\ config.max_retries = 2
    /\ req_pc = "raised"
    /\ attempts = 3
    /\ outcomes = <<500, -1, -2>>
    /\ last_delay = {1250}

----------------------------------------------------------------------------
(* The arguments of status.wait() *)

\* C40: status.wait(poll_interval=p, timeout=t) polls with exactly the
\* supplied p and t whenever the caller supplies them, including the value
\* 0; the defaults (2.0 s between checks, 300.0 s maximum wait) are used only
\* for an argument that is omitted.
C40_SuppliedArgumentsAreUsed ==
    wait_call.called =>
        /\ \A p \in wait_call.poll_interval :
               wait_call.passed_poll_interval = p
        /\ \A t \in wait_call.timeout : wait_call.passed_timeout = t
        /\ wait_call.poll_interval = {} =>
               wait_call.passed_poll_interval = DEFAULT_POLL_INTERVAL
        /\ wait_call.timeout = {} =>
               wait_call.passed_timeout = DEFAULT_POLL_TIMEOUT

----------------------------------------------------------------------------
(* Construction of a client, and its use from several threads *)

\* C32: a negative max_retries is a construction-time error: constructing a
\* client (sync or async) with max_retries < 0 fails with ValueError and
\* yields no client, so every retry configuration a request() runs with has
\* max_retries >= 0.
C32_NegativeMaxRetriesRejected ==
    /\ (constructed.called /\ \E n \in constructed.max_retries : n < 0) =>
           /\ constructed.raised = "ValueError"
           /\ base_client = {}
           /\ \A t \in Threads : thread[t] = ThreadIdle
    /\ \A c \in base_client :
           /\ c.retry_config.max_retries >= 0
           /\ c.retry_config.max_retries =
                  ResolvedMaxRetries(constructed.max_retries)
    /\ \A t \in Threads : \A n \in thread[t].ran_with : n >= 0
    /\ (constructed.called /\ \A n \in constructed.max_retries : n >= 0) =>
           (constructed.raised = "None" /\ base_client # {})

C32_Witness ==
    /\ constructed.called
    /\ constructed.class = "AsyncClient"
    /\ constructed.max_retries = {-1}
    /\ constructed.raised = "ValueError"
    /\ base_client = {}

\* C37: when several threads issue their first request() concurrently on
\* the same client, exactly one connection resource is created and every
\* call uses it: no interleaving creates a second resource that the client
\* loses track of and that close() therefore never releases.
C37_OneResourceForAllThreads ==
    /\ resources_made <= 1
    /\ \A t \in Threads : thread[t].got \subseteq {1}
    /\ resources_closed # {} => resources_closed = 1..resources_made

----------------------------------------------------------------------------
(* The blocking and the async mode *)

IsPrefix(a, b) ==
    /\ Len(a) <= Len(b)
    /\ \A i \in 1..Len(a) : a[i] = b[i]

AsyncRequestDone == async_request.pc \in {"returned", "raised"}

AsyncWaitDone == async_wait.pc \in {"returned", "raised"}

\* The async request() goes through the attempts and sleeps of the blocking
\* one, in the same order and with the same delays, and ends as it did.
RequestModesAgree ==
    mode_case = "request" =>
        /\ async_request.pc = "inflight" =>
               async_request.attempts <= Len(served)
        /\ async_request.attempts <= attempts
        /\ async_request.num_sleeps <= num_sleeps
        /\ Len(async_request.delays) = async_request.num_sleeps
        /\ \A k \in 1..Len(async_request.delays) :
               {async_request.delays[k]} = served[k].delay
        /\ AsyncRequestDone =>
               /\ async_request.attempts = attempts
               /\ async_request.num_sleeps = num_sleeps
               /\ async_request.result = req_result

\* The async wait goes through the sleeps, re-fetches and callback
\* invocations of the blocking one, in the same order, and ends as it did.
WaitModesAgree ==
    mode_case = "wait" =>
        /\ async_wait.pc = "fetch" => async_wait.refetches < Len(served)
        /\ async_wait.sleeps <= w_sleeps
        /\ async_wait.refetches <= refetches
        /\ IsPrefix(async_wait.fetched, fetched)
        /\ IsPrefix(async_wait.callbacks, callbacks)
        /\ async_wait.pc = "loop" =>
               Len(async_wait.callbacks) =
                   IF wait_args.has_on_status THEN async_wait.refetches
                   ELSE 0
        /\ AsyncWaitDone =>
               /\ async_wait.sleeps = w_sleeps
               /\ async_wait.refetches = refetches
               /\ async_wait.fetched = fetched
               /\ async_wait.callbacks = callbacks
               /\ async_wait.now = now
               /\ async_wait.result = w_result

\* C31: the blocking and the async mode have the same semantics: for the
\* same config and the same outcome of every attempt,
\* AsyncHTTPClient.request makes the attempts and backoff sleeps of
\* SyncHTTPClient.request and ends with the same response or error; for the
\* same served statuses wait_for_completion_async makes the sleeps,
\* re-fetches and callback invocations of wait_for_completion, whether its
\* callback is sync or async, and ends with the same status or error.
C31_ModesAgree ==
    /\ RequestModesAgree
    /\ WaitModesAgree

C31_Witness ==
    /\ mode_case = "wait"
    /\ on_status_kind = "async"
    /\ wait_args.has_on_status
    /\ async_wait.pc = "returned"
    /\ async_wait.refetches = 2
    /\ Len(async_wait.callbacks) = 2
    /\ async_wait.callbacks = callbacks
    /\ async_wait.result = w_result
    /\ async_wait.sleeps = 2

====
